---- MODULE Spec2Model ----
(***************************************************************************)
(* The symbol database of the Stellar compiler (crates/stellar_database)   *)
(* and the definition collector built on it (crates/stellar_typechecker).  *)
(*                                                                         *)
(* Handles are the 0-based indices the Rust code uses; a TLA+ sequence is  *)
(* 1-based, so the record of handle id lives at position id + 1.           *)
(* Option<T> is a sequence of length at most one: None is << >> and        *)
(* Some(x) is << x >>.  An FxHashMap keyed by identifier is a function on  *)
(* Identifiers whose value is the Option the map's get() returns.          *)
(* Fields that no modelled operation reads or writes (visibility,          *)
(* filepath) are left out of the records.                                  *)
(***************************************************************************)
EXTENDS Integers, Sequences, FiniteSets, TLC

VARIABLES
    db,           \* the Database
    diagnostics,  \* the diagnostics recorded in the State, in order
    op,           \* the last call made and what it returned
    returned,     \* per kind, the handles direct add_<what> calls returned, in order
    collector     \* CollectDefinitions::run_all: the lowered modules read so far
                  \* and the position in them

vars == <<db, diagnostics, op, returned, collector>>

(***************************************************************************)
(* Bounds of the model.                                                    *)
(***************************************************************************)
\* Total number of records the arena specification allocates.
MaxEntities == 2

\* Identifier names (interned IdentifierID values).
Names == {"a", "b"}

\* Every identifier a map may be asked for: the names above and the alias
\* "c" of an import.
Identifiers == Names \cup {"c"}

(***************************************************************************)
(* Option and map helpers.                                                 *)
(***************************************************************************)
None == << >>

Some(x) == << x >>

is_some(o) == o # None

unwrap(o) == o[1]

\* Option::or
or(o1, o2) == IF is_some(o1) THEN o1 ELSE o2

\* FxHashMap::default()
EmptyMap == [n \in Identifiers |-> None]

\* FxHashMap::insert
insert(m, k, v) == [m EXCEPT ![k] = Some(v)]

\* The outcome of a call that may panic: the value it returns, or the panic.
Ok(x) == << "ok", x >>

InvalidHandle == << "panic: index out of bounds" >>

is_ok(r) == r[1] = "ok"

value(r) == r[2]

(***************************************************************************)
(* Records (the *Data structs) as their `new` constructors build them.     *)
(***************************************************************************)
\* Location { filepath, start, end }: the file, the item of the file the
\* identifier belongs to and its place in that item.  Files and places of real
\* source text count from 1; DUMMY_LOCATION is all zero.
Location(filepath, item, place) == << filepath, item, place >>

DUMMY_LOCATION == Location(0, 0, 0)

IdentifierAST(id, location) == [id |-> id, location |-> location]

\* Type::Unknown, the type of what is not resolved yet.
Type_Unknown == [type |-> "Unknown"]

ModuleData_new(name) ==
    [name |-> name,
     module_item_symbols |-> EmptyMap,
     submodules |-> EmptyMap,
     resolved_imports |-> EmptyMap]

EnumData_new(name, module) ==
    [name |-> name, module |-> module,
     implements |-> << >>, predicates |-> << >>,
     items |-> EmptyMap, methods |-> EmptyMap]

StructData_new(name, module) ==
    [name |-> name, module |-> module,
     predicates |-> << >>, fields |-> EmptyMap, methods |-> EmptyMap]

TupleLikeStructData_new(name, module) ==
    [name |-> name, fields |-> << >>, module |-> module]

FieldData_new(name, ty) == [name |-> name, ty |-> ty]

PredicateData_new(ty, bounds) == [ty |-> ty, bounds |-> bounds]

GenericParameterScopeData_new(parent_scope) ==
    [parent_scope |-> parent_scope, parameters |-> EmptyMap]

GenericParameterData_new(location, default_value) ==
    [location |-> location, default_value |-> default_value]

EnumItemData_new(name, module) == [name |-> name, module |-> module]

FunctionData_new(name, module) == [name |-> name, module |-> module]

InterfaceData_new(name, module) ==
    [name |-> name, module |-> module,
     predicates |-> << >>, methods |-> EmptyMap]

\* A type alias that is born with a resolved type.
TypeAliasData_new_Resolved(name, module) ==
    [name |-> name, ty |-> [type |-> "Tuple", element_types |-> << >>],
     module |-> module]

TypeAliasData_new(name, module) ==
    [name |-> name, ty |-> Type_Unknown, module |-> module]

(***************************************************************************)
(* The Database: one arena per kind, and the package registry.             *)
(***************************************************************************)
\* `$what($whats)`: the arena (field of Database) each kind is stored in.
db_methods ==
    [module |-> "modules",
     enum_module_item |-> "enums",
     struct_module_item |-> "structs",
     tuple_like_struct |-> "tuple_like_structs",
     type_alias |-> "type_aliases",
     function |-> "functions",
     interface |-> "interfaces",
     predicate |-> "predicates",
     enum_item |-> "enum_items",
     field |-> "fields",
     generic_parameter_scope |-> "generic_parameter_scopes",
     generic_parameter |-> "generic_parameters"]

\* The `$what` names the db_methods! table is instantiated with.
Whats == DOMAIN db_methods

whats(what) == db_methods[what]

\* Database::new() = Database::default(): every arena and the registry empty.
Database_new ==
    [packages |-> EmptyMap,
     modules |-> << >>, enums |-> << >>, enum_items |-> << >>,
     predicates |-> << >>, structs |-> << >>, tuple_like_structs |-> << >>,
     fields |-> << >>, functions |-> << >>, interfaces |-> << >>,
     type_aliases |-> << >>, generic_parameter_scopes |-> << >>,
     generic_parameters |-> << >>]

\* A getter that clamps an index one past the end to the last record.
what_Clamped(d, what, id) ==
    LET arena == d[whats(what)]
    IN  IF id < Len(arena) THEN Ok(arena[id + 1])
        ELSE IF id = Len(arena) /\ Len(arena) > 0 THEN Ok(arena[Len(arena)])
        ELSE InvalidHandle

\* db_methods!: `$what(&self, id)` = &self.$whats[id.0]; indexing panics when
\* id.0 is out of bounds.
what_(d, what, id) ==
    IF id < Len(d[whats(what)]) THEN Ok(d[whats(what)][id + 1]) ELSE InvalidHandle

\* db_methods!: `$what_mut(&mut self, id)` = &mut self.$whats[id.0].
what_mut(d, what, id) ==
    IF id < Len(d[whats(what)]) THEN Ok(d[whats(what)][id + 1]) ELSE InvalidHandle

\* A bounds check that is off by one.
contains_OffByOne(d, what, id) == id <= Len(d[whats(what)])

\* db_methods!: `contains_$what(&self, id)` = id.0 < self.$whats.len().
contains_(d, what, id) == id < Len(d[whats(what)])

\* An allocation that returns the new length instead of the new length - 1.
add_ReturnsLen(d, what, data) ==
    LET pushed == [d EXCEPT ![whats(what)] = Append(@, data)]
    IN  [db |-> pushed, id |-> Len(pushed[whats(what)])]

\* An allocation that inserts at the front, shifting every earlier record.
add_AtFront(d, what, data) ==
    LET pushed == [d EXCEPT ![whats(what)] = << data >> \o @]
    IN  [db |-> pushed, id |-> Len(pushed[whats(what)]) - 1]

\* db_methods!: `add_$what(&mut self, data)`: push, then the id len() - 1.
\* Yields the database after the call and the handle returned.
add_(d, what, data) ==
    LET pushed == [d EXCEPT ![whats(what)] = Append(@, data)]
    IN  [db |-> pushed, id |-> Len(pushed[whats(what)]) - 1]

(***************************************************************************)
(* Specification of the arenas: allocation and the three accessors of      *)
(* every kind, from an empty Database.                                     *)
(***************************************************************************)
\* The names and owning modules the item records are built from.
ItemInputs ==
    {[name |-> IdentifierAST("a", Location(1, 1, 1)), module |-> 0],
     [name |-> IdentifierAST("b", Location(2, 1, 1)), module |-> 1]}

\* The records handed to add_<what>; the parent of a new scope is a scope
\* handle returned before.
ArenaInputs(what) ==
    CASE what = "module" -> {ModuleData_new(n) : n \in Names}
      [] what = "enum_module_item" ->
            {EnumData_new(i.name, i.module) : i \in ItemInputs}
      [] what = "struct_module_item" ->
            {StructData_new(i.name, i.module) : i \in ItemInputs}
      [] what = "tuple_like_struct" ->
            {TupleLikeStructData_new(i.name, i.module) : i \in ItemInputs}
      [] what = "type_alias" ->
            {TypeAliasData_new(i.name, i.module) : i \in ItemInputs}
      [] what = "function" ->
            {FunctionData_new(i.name, i.module) : i \in ItemInputs}
      [] what = "interface" ->
            {InterfaceData_new(i.name, i.module) : i \in ItemInputs}
      [] what = "predicate" -> {PredicateData_new(Type_Unknown, << >>)}
      [] what = "enum_item" ->
            {EnumItemData_new(i.name, i.module) : i \in ItemInputs}
      [] what = "field" ->
            {FieldData_new(IdentifierAST(n, Location(1, 1, 1)), Type_Unknown) : n \in Names}
      [] what = "generic_parameter_scope" ->
            {GenericParameterScopeData_new(p) :
                p \in {None} \cup {Some(returned[what][i]) :
                                      i \in 1 .. Len(returned[what])}}
      [] what = "generic_parameter" ->
            {GenericParameterData_new(Location(1, 1, l), None) : l \in {1, 2}}

\* Number of records in all arenas.
TotalEntities(d) ==
    Len(d.modules) + Len(d.enums) + Len(d.enum_items) + Len(d.predicates)
    + Len(d.structs) + Len(d.tuple_like_structs) + Len(d.fields)
    + Len(d.functions) + Len(d.interfaces) + Len(d.type_aliases)
    + Len(d.generic_parameter_scopes) + Len(d.generic_parameters)

NoOp == [name |-> "new", what |-> "", id |-> 0, arg |-> None, ret |-> None]

\* No CollectDefinitions pass is running.
NotCollecting == [cursor |-> 0, hir |-> << >>]

Init ==
    /\ db = Database_new
    /\ diagnostics = << >>
    /\ op = NoOp
    /\ returned = [what \in Whats |-> << >>]
    /\ collector = NotCollecting

Add(what, data) ==
    /\ TotalEntities(db) < MaxEntities
    /\ LET r == add_(db, what, data)
       IN  /\ db' = r.db
           /\ op' = [name |-> "add", what |-> what, id |-> r.id,
                     arg |-> Some(data), ret |-> Ok(r.id)]
           /\ returned' = [returned EXCEPT ![what] = Append(@, r.id)]
    /\ UNCHANGED <<diagnostics, collector>>

Get(what, id) ==
    /\ op' = [name |-> "get", what |-> what, id |-> id, arg |-> None,
              ret |-> what_(db, what, id)]
    /\ UNCHANGED <<db, diagnostics, returned, collector>>

GetMut(what, id) ==
    /\ op' = [name |-> "get_mut", what |-> what, id |-> id, arg |-> None,
              ret |-> what_mut(db, what, id)]
    /\ UNCHANGED <<db, diagnostics, returned, collector>>

Contains(what, id) ==
    /\ op' = [name |-> "contains", what |-> what, id |-> id, arg |-> None,
              ret |-> Ok(contains_(db, what, id))]
    /\ UNCHANGED <<db, diagnostics, returned, collector>>

\* The handles a caller probes with: every valid one and the first invalid one.
ProbeIds(what) == 0 .. Len(db[whats(what)])

NextArena ==
    \/ \E what \in Whats : \E data \in ArenaInputs(what) : Add(what, data)
    \/ \E what \in Whats : \E id \in ProbeIds(what) : Get(what, id)
    \/ \E what \in Whats : \E id \in ProbeIds(what) : GetMut(what, id)
    \/ \E what \in Whats : \E id \in ProbeIds(what) : Contains(what, id)

SpecArena == Init /\ [][NextArena]_vars

(***************************************************************************)
(* Claims about the arenas.                                                *)
(***************************************************************************)
\* The arenas other than that of `what` are the same in d1 and d2.
OtherArenasSame(d1, d2, what) ==
    /\ d1.packages = d2.packages
    /\ \A w \in Whats \ {what} : d1[whats(w)] = d2[whats(w)]

\* C1: every add_<what> call appends exactly the record passed to the arena of
\* that kind, leaves the other arenas alone and returns the handle whose index
\* is the arena length before the call; the handles returned for one kind are
\* therefore 0, 1, 2, ... in order: strictly increasing, none returned twice.
C1_AddStep ==
    op'.name = "add" =>
        LET arena == db[whats(op'.what)]
            arena2 == db'[whats(op'.what)]
        IN  /\ arena2 = Append(arena, unwrap(op'.arg))
            /\ op'.ret = Ok(Len(arena))
            /\ op'.ret = Ok(Len(arena2) - 1)
            /\ OtherArenasSame(db, db', op'.what)

C1_HandlesIncrease ==
    \A what \in Whats :
        /\ Len(returned[what]) = Len(db[whats(what)])
        /\ \A i \in 1 .. Len(returned[what]) : returned[what][i] = i - 1
        /\ \A i, j \in 1 .. Len(returned[what]) :
              i < j => returned[what][i] < returned[what][j]

C1_Allocate == [][C1_AddStep]_vars /\ []C1_HandlesIncrease

\* C1 witness: a second allocation of one kind has returned handle 1.
C1_Witness ==
    /\ op.name = "add"
    /\ op.ret = Ok(1)
    /\ returned[op.what] = << 0, 1 >>

\* The kinds whose record carries a name, and those that carry an owning module.
NamedWhats == Whats \ {"predicate", "generic_parameter_scope", "generic_parameter"}

OwnedWhats == NamedWhats \ {"module", "field"}

\* C2: a handle is never invalidated: a handle that contains_<what> accepts is
\* accepted after every later step, and the name and the owning module read
\* through it stay those of the record it was allocated for.
C2_HandleStep ==
    db' # db =>
    \A what \in Whats : \A id \in 0 .. MaxEntities :
        contains_(db, what, id) =>
            /\ contains_(db', what, id)
            /\ is_ok(what_(db', what, id))
            /\ what \in NamedWhats =>
                  value(what_(db', what, id)).name = value(what_(db, what, id)).name
            /\ what \in OwnedWhats =>
                  value(what_(db', what, id)).module
                      = value(what_(db, what, id)).module

C2_HandleStable == [][C2_HandleStep]_vars

\* C2 witness: a record was allocated, under a different name, in an arena that
\* already held a record.
C2_Witness ==
    /\ op.name = "add"
    /\ op.what = "function"
    /\ Len(db.functions) = 2
    /\ db.functions[1].name # db.functions[2].name

\* C3: the accessor and the mutable accessor fail with InvalidHandle exactly
\* when the index is at least the arena length, otherwise they return the
\* record at that index; neither records a diagnostic or changes the Database.
C3_GetStep ==
    op'.name \in {"get", "get_mut"} =>
        LET arena == db[whats(op'.what)]
        IN  /\ (op'.ret = InvalidHandle) <=> (op'.id >= Len(arena))
            /\ op'.id < Len(arena) => op'.ret = Ok(arena[op'.id + 1])
            /\ diagnostics' = diagnostics
            /\ db' = db

C3_Get == [][C3_GetStep]_vars

\* C3 witness: an accessor was called with the first invalid handle of a
\* non-empty arena and failed.
C3_Witness ==
    /\ op.name \in {"get", "get_mut"}
    /\ op.id = 1
    /\ Len(db[whats(op.what)]) = 1
    /\ op.ret = InvalidHandle

\* C4: contains_<what> answers true exactly when the index is below the arena
\* length, which is exactly when the accessor succeeds, and changes neither the
\* Database nor the diagnostics.
C4_ContainsStep ==
    op'.name = "contains" =>
        /\ value(op'.ret) = (op'.id < Len(db[whats(op'.what)]))
        /\ value(op'.ret) = is_ok(what_(db, op'.what, op'.id))
        /\ value(op'.ret) = is_ok(what_mut(db, op'.what, op'.id))
        /\ db' = db
        /\ diagnostics' = diagnostics

C4_Contains == [][C4_ContainsStep]_vars

\* C4 witness: contains_<what> was asked about the first invalid handle of a
\* non-empty arena and answered false.
C4_Witness ==
    /\ op.name = "contains"
    /\ op.id = 1
    /\ Len(db[whats(op.what)]) = 1
    /\ op.ret = Ok(FALSE)

(***************************************************************************)
(* Symbols, the module tree (impl ModuleID) and the package registry.      *)
(***************************************************************************)
\* define_symbol_struct!: a handle tagged with its kind.
Symbol(kind, id) == [kind |-> kind, id |-> id]

\* The arena kind ($what) a Symbol of each kind points into.
SymbolWhat ==
    [Module |-> "module", Enum |-> "enum_module_item",
     Struct |-> "struct_module_item", Function |-> "function",
     Interface |-> "interface", TupleLikeStruct |-> "tuple_like_struct",
     TypeAlias |-> "type_alias", EnumItem |-> "enum_item"]

\* ModuleID::name
ModuleID_name(d, self) == value(what_(d, "module", self)).name

\* ModuleID::module_item_symbols
module_item_symbols(d, self) == value(what_(d, "module", self)).module_item_symbols

\* ModuleID::submodules
submodules(d, self) == value(what_(d, "module", self)).submodules

\* ModuleID::resolved_imports
resolved_imports(d, self) == value(what_(d, "module", self)).resolved_imports

\* ModuleID::module_item_symbol
module_item_symbol(d, self, item_name) == module_item_symbols(d, self)[item_name]

\* ModuleID::submodule
submodule(d, self, name) == submodules(d, self)[name]

\* Option::map(Symbol::Module)
map_Symbol_Module(o) == IF is_some(o) THEN Some(Symbol("Module", unwrap(o))) ELSE None

\* A lookup that lets the submodule shadow the declared item.
symbol_SubmoduleFirst(d, self, name) ==
    or(map_Symbol_Module(submodule(d, self, name)), module_item_symbol(d, self, name))

\* A lookup that knows the declared items only.
symbol_ItemsOnly(d, self, name) == module_item_symbol(d, self, name)

\* ModuleID::symbol
symbol(d, self, name) ==
    or(module_item_symbol(d, self, name), map_Symbol_Module(submodule(d, self, name)))

\* ModuleID::contains_module_item_symbol
contains_module_item_symbol(d, self, item_name) ==
    is_some(module_item_symbols(d, self)[item_name])

\* An insertion that keeps an existing binding (first one wins).
add_module_item_KeepsFirst(d, self, name, sym) ==
    IF is_ok(what_mut(d, "module", self))
    THEN Ok(IF is_some(module_item_symbol(d, self, name)) THEN d
            ELSE [d EXCEPT !.modules[self + 1].module_item_symbols = insert(@, name, sym)])
    ELSE InvalidHandle

\* An insertion into the item map of the first module, whatever `self` is.
add_module_item_IntoFirst(d, self, name, sym) ==
    IF is_ok(what_mut(d, "module", self))
    THEN Ok([d EXCEPT !.modules[1].module_item_symbols = insert(@, name, sym)])
    ELSE InvalidHandle

\* ModuleID::add_module_item: the Database after the call, or the panic of
\* module_mut.
add_module_item(d, self, name, sym) ==
    IF is_ok(what_mut(d, "module", self))
    THEN Ok([d EXCEPT !.modules[self + 1].module_item_symbols = insert(@, name, sym)])
    ELSE InvalidHandle

\* ModuleID::add_submodule: reads the submodule's name, then inserts under it.
add_submodule(d, self, module) ==
    IF is_ok(what_(d, "module", module)) /\ is_ok(what_mut(d, "module", self))
    THEN Ok([d EXCEPT !.modules[self + 1].submodules =
                          insert(@, ModuleID_name(d, module), module)])
    ELSE InvalidHandle

\* An import insertion that writes the declared-item map instead.
add_resolved_import_IntoItems(d, self, name, sym) ==
    IF is_ok(what_mut(d, "module", self))
    THEN Ok([d EXCEPT !.modules[self + 1].module_item_symbols = insert(@, name, sym)])
    ELSE InvalidHandle

\* ModuleID::add_resolved_import
add_resolved_import(d, self, name, sym) ==
    IF is_ok(what_mut(d, "module", self))
    THEN Ok([d EXCEPT !.modules[self + 1].resolved_imports = insert(@, name, sym)])
    ELSE InvalidHandle

\* A lookup that returns the root of a registered package whatever the name.
package_root_module_AnyPackage(d, package_name) ==
    IF \E n \in Identifiers : is_some(d.packages[n])
    THEN d.packages[CHOOSE n \in Identifiers : is_some(d.packages[n])]
    ELSE None

\* Database::package_root_module
package_root_module(d, package_name) == d.packages[package_name]

\* Database::contains_package
contains_package(d, package_name) == is_some(d.packages[package_name])

\* A registration that keeps the first root registered under a name.
add_package_KeepsFirst(d, root_module) ==
    IF is_ok(what_(d, "module", root_module))
    THEN Ok(IF contains_package(d, ModuleID_name(d, root_module)) THEN d
            ELSE [d EXCEPT !.packages = insert(@, ModuleID_name(d, root_module),
                                               root_module)])
    ELSE InvalidHandle

\* Database::add_package: reads the root module's name, then inserts under it.
add_package(d, root_module) ==
    IF is_ok(what_(d, "module", root_module))
    THEN Ok([d EXCEPT !.packages = insert(@, ModuleID_name(d, root_module),
                                          root_module)])
    ELSE InvalidHandle

(***************************************************************************)
(* Specification of the module tree: the registry and the three maps of    *)
(* every module are written, in a Database that holds three modules (two   *)
(* of them with the same name) and one function.                           *)
(***************************************************************************)
\* Entries the tree specification puts in the registry and the module maps.
MaxBindings == 2

\* The Database after add_module("a"), add_module("a"), add_module("b") and
\* add_function(a, module 0).
TreeDatabase ==
    LET d1 == add_(Database_new, "module", ModuleData_new("a")).db
        d2 == add_(d1, "module", ModuleData_new("a")).db
        d3 == add_(d2, "module", ModuleData_new("b")).db
    IN  add_(d3, "function", FunctionData_new(IdentifierAST("a", Location(1, 1, 1)), 0)).db

InitTree ==
    /\ db = TreeDatabase
    /\ diagnostics = << >>
    /\ op = NoOp
    /\ returned = [what \in Whats |->
                      [i \in 1 .. Len(TreeDatabase[whats(what)]) |-> i - 1]]
    /\ collector = NotCollecting

\* Number of entries of a map.
Entries(m) == Cardinality({n \in Names : is_some(m[n])})

RECURSIVE ModuleEntries(_, _)
ModuleEntries(d, n) ==
    IF n = 0 THEN 0
    ELSE Entries(d.modules[n].module_item_symbols) + Entries(d.modules[n].submodules)
         + Entries(d.modules[n].resolved_imports) + ModuleEntries(d, n - 1)

TotalBindings(d) == Entries(d.packages) + ModuleEntries(d, Len(d.modules))

\* Module handles a caller passes: the handles of the modules allocated.
ModuleIds == 0 .. Len(db.modules) - 1

\* The Symbols of the entities allocated.
ValidSymbols ==
    {Symbol("Module", i) : i \in 0 .. Len(db.modules) - 1}
    \cup {Symbol("Function", i) : i \in 0 .. Len(db.functions) - 1}

\* The state after a call that returns r: a panic leaves the Database as it was.
After(r) == IF is_ok(r) THEN value(r) ELSE db

Unit(r) == IF is_ok(r) THEN Ok(None) ELSE InvalidHandle

AddPackage(root_module) ==
    /\ LET r == add_package(db, root_module)
       IN  /\ TotalBindings(After(r)) <= MaxBindings
           /\ db' = After(r)
           /\ op' = [name |-> "add_package", what |-> "module", id |-> root_module,
                     arg |-> None, ret |-> Unit(r)]
    /\ UNCHANGED <<diagnostics, returned, collector>>

AddModuleItem(self, name, sym) ==
    /\ LET r == add_module_item(db, self, name, sym)
       IN  /\ TotalBindings(After(r)) <= MaxBindings
           /\ db' = After(r)
           /\ op' = [name |-> "add_module_item", what |-> "module", id |-> self,
                     arg |-> << name, sym >>, ret |-> Unit(r)]
    /\ UNCHANGED <<diagnostics, returned, collector>>

AddSubmodule(self, module) ==
    /\ LET r == add_submodule(db, self, module)
       IN  /\ TotalBindings(After(r)) <= MaxBindings
           /\ db' = After(r)
           /\ op' = [name |-> "add_submodule", what |-> "module", id |-> self,
                     arg |-> << module >>, ret |-> Unit(r)]
    /\ UNCHANGED <<diagnostics, returned, collector>>

AddResolvedImport(self, name, sym) ==
    /\ LET r == add_resolved_import(db, self, name, sym)
       IN  /\ TotalBindings(After(r)) <= MaxBindings
           /\ db' = After(r)
           /\ op' = [name |-> "add_resolved_import", what |-> "module", id |-> self,
                     arg |-> << name, sym >>, ret |-> Unit(r)]
    /\ UNCHANGED <<diagnostics, returned, collector>>

NextTree ==
    \/ \E root_module \in ModuleIds : AddPackage(root_module)
    \/ \E self \in ModuleIds : \E name \in Names : \E sym \in ValidSymbols :
          AddModuleItem(self, name, sym)
    \/ \E self \in ModuleIds : \E module \in ModuleIds : AddSubmodule(self, module)
    \/ \E self \in ModuleIds : \E name \in Names : \E sym \in ValidSymbols :
          AddResolvedImport(self, name, sym)

SpecTree == InitTree /\ [][NextTree]_vars

(***************************************************************************)
(* Claims about the package registry and the module tree.                  *)
(***************************************************************************)
\* C5: add_package(root) registers root under the name of the root module:
\* after the call package_root_module of that name is the root just passed
\* (so the last registration of a name wins), the mappings of the other names
\* and every arena are as before, and no diagnostic is produced.
C5_AddPackageStep ==
    (op'.name = "add_package" /\ is_ok(op'.ret)) =>
        LET root == op'.id
            name == ModuleID_name(db, root)
        IN  /\ package_root_module(db', name) = Some(root)
            /\ contains_package(db', name)
            /\ \A n \in Names \ {name} :
                  package_root_module(db', n) = package_root_module(db, n)
            /\ \A what \in Whats : db'[whats(what)] = db[whats(what)]
            /\ diagnostics' = diagnostics

C5_AddPackage == [][C5_AddPackageStep]_vars

\* C5 witness: the second module named "a" was registered after the first one
\* and is now the root of package "a".
C5_Witness ==
    /\ op.name = "add_package"
    /\ op.id = 1
    /\ ModuleID_name(db, 0) = ModuleID_name(db, 1)
    /\ package_root_module(db, "a") = Some(1)

\* C6: symbol(m, n) is the declared item bound to n when there is one,
\* otherwise the submodule named n wrapped as a Module symbol when there is
\* one, otherwise nothing.
C6_Symbol ==
    \A m \in ModuleIds : \A n \in Names :
        symbol(db, m, n) =
            IF is_some(value(what_(db, "module", m)).module_item_symbols[n])
            THEN value(what_(db, "module", m)).module_item_symbols[n]
            ELSE IF is_some(value(what_(db, "module", m)).submodules[n])
            THEN Some(Symbol("Module",
                             unwrap(value(what_(db, "module", m)).submodules[n])))
            ELSE None

\* C6 witness: a module has a declared item and a submodule of the same name,
\* and symbol() answers with the item.
C6_Witness ==
    \E m \in ModuleIds : \E n \in Names :
        /\ is_some(module_item_symbol(db, m, n))
        /\ is_some(submodule(db, m, n))
        /\ symbol(db, m, n) = module_item_symbol(db, m, n)
        /\ symbol(db, m, n) # map_Symbol_Module(submodule(db, m, n))

\* C7: the resolved imports are a namespace of their own: add_resolved_import
\* changes the result of symbol(), module_item_symbol() and submodule() for no
\* module and name, and add_module_item and add_submodule change no module's
\* resolved-import map.
C7_SeparateStep ==
    /\ op'.name = "add_resolved_import" =>
          \A m \in ModuleIds : \A n \in Names :
              /\ symbol(db', m, n) = symbol(db, m, n)
              /\ module_item_symbol(db', m, n) = module_item_symbol(db, m, n)
              /\ submodule(db', m, n) = submodule(db, m, n)
    /\ op'.name \in {"add_module_item", "add_submodule"} =>
          \A m \in ModuleIds : resolved_imports(db', m) = resolved_imports(db, m)

C7_Separate == [][C7_SeparateStep]_vars

\* C7 witness: an import was bound under a name that symbol() does not resolve.
C7_Witness ==
    /\ op.name = "add_resolved_import"
    /\ resolved_imports(db, op.id)[op.arg[1]] = Some(op.arg[2])
    /\ symbol(db, op.id, op.arg[1]) = None

\* The maps of module m other than the entry of name n in the map `field`.
OtherBindingsSame(d1, d2, self, field, name) ==
    /\ d1.packages = d2.packages
    /\ \A m \in 0 .. Len(d1.modules) - 1 :
          \A f \in {"module_item_symbols", "submodules", "resolved_imports"} :
              \A n \in Names :
                  (m # self \/ f # field \/ n # name) =>
                      d2.modules[m + 1][f][n] = d1.modules[m + 1][f][n]

\* C8: add_module_item, add_submodule and add_resolved_import insert or
\* overwrite: after the call the lookup of that name in that module returns the
\* value just passed, bound before or not (add_submodule binds under the
\* submodule's own name); every other binding is as before and no diagnostic is
\* appended.
C8_InsertStep ==
    /\ (op'.name = "add_module_item" /\ is_ok(op'.ret)) =>
          /\ module_item_symbol(db', op'.id, op'.arg[1]) = Some(op'.arg[2])
          /\ OtherBindingsSame(db, db', op'.id, "module_item_symbols", op'.arg[1])
          /\ diagnostics' = diagnostics
    /\ (op'.name = "add_submodule" /\ is_ok(op'.ret)) =>
          /\ submodule(db', op'.id, ModuleID_name(db, op'.arg[1])) = Some(op'.arg[1])
          /\ OtherBindingsSame(db, db', op'.id, "submodules",
                               ModuleID_name(db, op'.arg[1]))
          /\ diagnostics' = diagnostics
    /\ (op'.name = "add_resolved_import" /\ is_ok(op'.ret)) =>
          /\ resolved_imports(db', op'.id)[op'.arg[1]] = Some(op'.arg[2])
          /\ OtherBindingsSame(db, db', op'.id, "resolved_imports", op'.arg[1])
          /\ diagnostics' = diagnostics

C8_Insert == [][C8_InsertStep]_vars

\* C8 witness: a module whose other name is bound to the function got the
\* name rebound to a module symbol by add_module_item.
C8_Witness ==
    /\ op.name = "add_module_item"
    /\ op.arg[2] = Symbol("Module", 1)
    /\ module_item_symbol(db, op.id, op.arg[1]) = Some(Symbol("Module", 1))
    /\ \E n \in Names \ {op.arg[1]} :
          module_item_symbol(db, op.id, n) = Some(Symbol("Function", 0))

(***************************************************************************)
(* The definition collector (CollectDefinitions).  A State is the pair of  *)
(* the Database and the diagnostics; every define_* takes the State, the   *)
(* module being collected and the HIR item, and yields the State after it. *)
(***************************************************************************)
\* Symbol::name
Symbol_name(d, sym) ==
    IF sym.kind = "Module"
    THEN IdentifierAST(value(what_(d, "module", sym.id)).name, DUMMY_LOCATION)
    ELSE value(what_(d, SymbolWhat[sym.kind], sym.id)).name

\* ItemDefinedMultipleTimes::new, with the file it is recorded under by
\* add_single_file_diagnostic.
ItemDefinedMultipleTimes(filepath, name, first, second) ==
    [diagnostic |-> "ItemDefinedMultipleTimes", filepath |-> filepath,
     name |-> name, first |-> first, second |-> second]

\* EnumItemDefinedMultipleTimes::new, with the file it is recorded under.
EnumItemDefinedMultipleTimes(filepath, enum_name, item_name, first, second) ==
    [diagnostic |-> "EnumItemDefinedMultipleTimes", filepath |-> filepath,
     name |-> item_name, enum_name |-> enum_name,
     first |-> first, second |-> second]

\* A check that consults symbol(): the declared items and the submodules.
check_for_duplicate_definition_AnySymbol(st, module, name) ==
    IF is_some(symbol(st.db, module, name.id))
    THEN [st EXCEPT !.diagnostics =
            Append(@, ItemDefinedMultipleTimes(
                          name.location[1], name.id,
                          Symbol_name(st.db,
                                      unwrap(symbol(st.db, module, name.id))).location,
                          name.location))]
    ELSE st

\* A check that reports every definition, bound before or not.
check_for_duplicate_definition_Always(st, module, name) ==
    [st EXCEPT !.diagnostics =
        Append(@, ItemDefinedMultipleTimes(name.location[1], name.id,
                                           name.location, name.location))]

\* A check that reports the two locations in the opposite order.
check_for_duplicate_definition_Swapped(st, module, name) ==
    IF is_some(module_item_symbol(st.db, module, name.id))
    THEN [st EXCEPT !.diagnostics =
            Append(@, ItemDefinedMultipleTimes(
                          name.location[1], name.id,
                          name.location,
                          Symbol_name(st.db,
                                      unwrap(module_item_symbol(st.db, module,
                                                                name.id))).location))]
    ELSE st

\* CollectDefinitions::check_for_duplicate_definition
check_for_duplicate_definition(st, module, name) ==
    IF is_some(module_item_symbol(st.db, module, name.id))
    THEN [st EXCEPT !.diagnostics =
            Append(@, ItemDefinedMultipleTimes(
                          name.location[1], name.id,
                          Symbol_name(st.db,
                                      unwrap(module_item_symbol(st.db, module,
                                                                name.id))).location,
                          name.location))]
    ELSE st

\* A check against the enum items of every enum allocated so far.
check_for_duplicate_enum_item_AnyEnum(st, enum_data, item_name) ==
    LET same == {i \in 1 .. Len(st.db.enum_items) :
                    st.db.enum_items[i].name.id = item_name.id}
    IN  IF same # {}
        THEN [st EXCEPT !.diagnostics =
                Append(@, EnumItemDefinedMultipleTimes(
                              item_name.location[1], enum_data.name.id,
                              item_name.id,
                              st.db.enum_items[CHOOSE i \in same :
                                                  \A j \in same : j <= i]
                                  .name.location,
                              item_name.location))]
        ELSE st

\* CollectDefinitions::check_for_duplicate_enum_item: the diagnostics after it.
check_for_duplicate_enum_item(st, enum_data, item_name) ==
    IF is_some(enum_data.items[item_name.id])
    THEN [st EXCEPT !.diagnostics =
            Append(@, EnumItemDefinedMultipleTimes(
                          item_name.location[1], enum_data.name.id, item_name.id,
                          value(what_(st.db, "enum_item",
                                      unwrap(enum_data.items[item_name.id])))
                              .name.location,
                          item_name.location))]
    ELSE st

\* The `for item in &enum_.items` loop of define_enum, from item k on: the
\* State and the EnumData being built after the remaining items.
RECURSIVE define_enum_items(_, _, _, _, _)
define_enum_items(st, module, enum_data, items, k) ==
    IF k > Len(items) THEN [st |-> st, enum_data |-> enum_data]
    ELSE LET name == items[k]
             checked == check_for_duplicate_enum_item(st, enum_data, name)
             r == add_(checked.db, "enum_item", EnumItemData_new(name, module))
         IN  define_enum_items([checked EXCEPT !.db = r.db], module,
                               [enum_data EXCEPT !.items = insert(@, name.id, r.id)],
                               items, k + 1)

\* A define_enum that checks the name of the enum before it walks the items.
define_enum_ChecksEnumFirst(st, module, enum_) ==
    LET checked == check_for_duplicate_definition(st, module, enum_.name)
        walked == define_enum_items(checked, module,
                                    EnumData_new(enum_.name, module),
                                    enum_.items, 1)
        r == add_(walked.st.db, "enum_module_item", walked.enum_data)
    IN  [walked.st EXCEPT !.db =
            value(add_module_item(r.db, module, enum_.name.id, Symbol("Enum", r.id)))]

\* CollectDefinitions::define_enum
define_enum(st, module, enum_) ==
    LET walked == define_enum_items(st, module, EnumData_new(enum_.name, module),
                                    enum_.items, 1)
        checked == check_for_duplicate_definition(walked.st, module, enum_.name)
        r == add_(checked.db, "enum_module_item", walked.enum_data)
    IN  [checked EXCEPT !.db =
            value(add_module_item(r.db, module, enum_.name.id, Symbol("Enum", r.id)))]

\* A define_function that leaves an existing binding in place.
define_function_KeepsFirst(st, module, function) ==
    LET r == add_(st.db, "function", FunctionData_new(function.name, module))
        checked == check_for_duplicate_definition([st EXCEPT !.db = r.db], module,
                                                  function.name)
    IN  IF is_some(module_item_symbol(st.db, module, function.name.id))
        THEN checked
        ELSE [checked EXCEPT !.db =
                value(add_module_item(r.db, module, function.name.id,
                                      Symbol("Function", r.id)))]

\* A define_function that allocates nothing for a name that is bound already.
define_function_SkipsDuplicate(st, module, function) ==
    LET r == add_(st.db, "function", FunctionData_new(function.name, module))
        checked == check_for_duplicate_definition(st, module, function.name)
    IN  IF is_some(module_item_symbol(st.db, module, function.name.id))
        THEN checked
        ELSE [checked EXCEPT !.db =
                value(add_module_item(r.db, module, function.name.id,
                                      Symbol("Function", r.id)))]

\* CollectDefinitions::define_function
define_function(st, module, function) ==
    LET r == add_(st.db, "function", FunctionData_new(function.name, module))
        checked == check_for_duplicate_definition([st EXCEPT !.db = r.db], module,
                                                  function.name)
    IN  [checked EXCEPT !.db =
            value(add_module_item(r.db, module, function.name.id,
                                  Symbol("Function", r.id)))]

\* CollectDefinitions::define_struct
define_struct(st, module, struct_) ==
    LET r == add_(st.db, "struct_module_item", StructData_new(struct_.name, module))
        checked == check_for_duplicate_definition([st EXCEPT !.db = r.db], module,
                                                  struct_.name)
    IN  [checked EXCEPT !.db =
            value(add_module_item(r.db, module, struct_.name.id,
                                  Symbol("Struct", r.id)))]

\* A define_tuple_like_struct that binds its record as a Struct symbol.
define_tuple_like_struct_AsStruct(st, module, struct_) ==
    LET r == add_(st.db, "tuple_like_struct",
                  TupleLikeStructData_new(struct_.name, module))
        checked == check_for_duplicate_definition([st EXCEPT !.db = r.db], module,
                                                  struct_.name)
    IN  [checked EXCEPT !.db =
            value(add_module_item(r.db, module, struct_.name.id,
                                  Symbol("Struct", r.id)))]

\* CollectDefinitions::define_tuple_like_struct
define_tuple_like_struct(st, module, struct_) ==
    LET r == add_(st.db, "tuple_like_struct",
                  TupleLikeStructData_new(struct_.name, module))
        checked == check_for_duplicate_definition([st EXCEPT !.db = r.db], module,
                                                  struct_.name)
    IN  [checked EXCEPT !.db =
            value(add_module_item(r.db, module, struct_.name.id,
                                  Symbol("TupleLikeStruct", r.id)))]

\* CollectDefinitions::define_interface
define_interface(st, module, interface) ==
    LET r == add_(st.db, "interface", InterfaceData_new(interface.name, module))
        checked == check_for_duplicate_definition([st EXCEPT !.db = r.db], module,
                                                  interface.name)
    IN  [checked EXCEPT !.db =
            value(add_module_item(r.db, module, interface.name.id,
                                  Symbol("Interface", r.id)))]

\* CollectDefinitions::define_type_alias
define_type_alias(st, module, alias) ==
    LET r == add_(st.db, "type_alias", TypeAliasData_new(alias.name, module))
        checked == check_for_duplicate_definition([st EXCEPT !.db = r.db], module,
                                                  alias.name)
    IN  [checked EXCEPT !.db =
            value(add_module_item(r.db, module, alias.name.id,
                                  Symbol("TypeAlias", r.id)))]

\* A run that also binds each import in the resolved imports of its module.
run_BindsImports(st, module, item) ==
    CASE item.kind = "Enum" -> define_enum(st, module, item)
      [] item.kind = "Function" -> define_function(st, module, item)
      [] item.kind = "Struct" -> define_struct(st, module, item)
      [] item.kind = "Interface" -> define_interface(st, module, item)
      [] item.kind = "TupleLikeStruct" -> define_tuple_like_struct(st, module, item)
      [] item.kind = "TypeAlias" -> define_type_alias(st, module, item)
      [] OTHER -> [st EXCEPT !.db =
                      value(add_resolved_import(st.db, module, item.name.id,
                                                Symbol("Module", module)))]

\* A run that resolves each import as soon as the pass reads it.
run_ResolvesImports(st, module, item) ==
    CASE item.kind = "Enum" -> define_enum(st, module, item)
      [] item.kind = "Function" -> define_function(st, module, item)
      [] item.kind = "Struct" -> define_struct(st, module, item)
      [] item.kind = "Interface" -> define_interface(st, module, item)
      [] item.kind = "TupleLikeStruct" -> define_tuple_like_struct(st, module, item)
      [] item.kind = "TypeAlias" -> define_type_alias(st, module, item)
      [] OTHER ->
           IF ~is_some(st.db.packages[item.path[1].id]) THEN st
           ELSE [st EXCEPT !.db =
                    value(add_resolved_import(
                              st.db, module, item.name.id,
                              Symbol("Module", unwrap(st.db.packages[item.path[1].id]))))]

\* The body of the for_each in CollectDefinitions::run: one module item.
run(st, module, item) ==
    CASE item.kind = "Enum" -> define_enum(st, module, item)
      [] item.kind = "Function" -> define_function(st, module, item)
      [] item.kind = "Struct" -> define_struct(st, module, item)
      [] item.kind = "Interface" -> define_interface(st, module, item)
      [] item.kind = "TupleLikeStruct" -> define_tuple_like_struct(st, module, item)
      [] item.kind = "TypeAlias" -> define_type_alias(st, module, item)
      [] OTHER -> st

(***************************************************************************)
(* Specification of the collector: run_all over two lowered modules, in    *)
(* the order of the slice, each module's items in their order.  The items  *)
(* are drawn one by one as the pass reads them; collector.hir keeps, per   *)
(* module, the items read so far.                                          *)
(***************************************************************************)
\* Module items the lowered modules hold in total.
MaxItems == 3

\* The kinds of stellar_hir::ModuleItem the pass defines, and one it skips.
DefinedKinds ==
    {"Enum", "Function", "Struct", "Interface", "TupleLikeStruct", "TypeAlias"}

\* The Symbol kind define_* binds an item of each kind to.
SymbolKind ==
    [Enum |-> "Enum", Function |-> "Function", Struct |-> "Struct",
     Interface |-> "Interface", TupleLikeStruct |-> "TupleLikeStruct",
     TypeAlias |-> "TypeAlias"]

\* The item names of the enums of the lowered modules.
EnumItemLists == {<< "a", "b" >>, << "a", "a" >>}

\* File of a module (ModuleID::filepath): files of real modules count from 1.
filepath(module) == module + 1

\* The HIR item at place `index` of module `module`: its name, and the names
\* of its enum items, located where they stand.
ModuleItem(module, index, kind, id, enum_items) ==
    [kind |-> kind,
     name |-> IdentifierAST(id, Location(filepath(module), index, 0)),
     items |-> [k \in 1 .. Len(enum_items) |->
                   IdentifierAST(enum_items[k],
                                 Location(filepath(module), index, k))]]

\* The Database the pass starts from: modules "a" and "b", the second a
\* submodule of the first.
CollectDatabase ==
    LET d1 == add_(Database_new, "module", ModuleData_new("a")).db
        d2 == add_(d1, "module", ModuleData_new("b")).db
    IN  value(add_submodule(d2, 0, 1))

\* Handles of the lowered modules, in the order run_all visits them.
LoweredModules == 0 .. Len(CollectDatabase.modules) - 1

\* CollectDatabase with the module "b" importing the module "a" under the
\* name a: the pass runs over modules that hold a submodule and a resolved
\* import already.
ImportingDatabase ==
    value(add_resolved_import(CollectDatabase, 1, "a", Symbol("Module", 0)))

InitCollect ==
    /\ db = ImportingDatabase
    /\ diagnostics = << >>
    /\ op = NoOp
    /\ returned = [what \in Whats |->
                      [i \in 1 .. Len(CollectDatabase[whats(what)]) |-> i - 1]]
    /\ collector = [cursor |-> 0, hir |-> [m \in LoweredModules |-> << >>]]

\* Number of items read so far.
RECURSIVE ItemsRead(_, _)
ItemsRead(hir, m) ==
    IF m \notin DOMAIN hir THEN 0 ELSE Len(hir[m]) + ItemsRead(hir, m + 1)

\* run: the pass reads the next item of the current module and defines it.
Run(kind, id, enum_items) ==
    /\ collector.cursor \in LoweredModules
    /\ ItemsRead(collector.hir, 0) < MaxItems
    /\ LET module == collector.cursor
           item == ModuleItem(module, Len(collector.hir[module]) + 1, kind, id,
                              enum_items)
           st == run([db |-> db, diagnostics |-> diagnostics], module, item)
       IN  /\ db' = st.db
           /\ diagnostics' = st.diagnostics
           /\ collector' = [collector EXCEPT !.hir[module] = Append(@, item)]
           /\ op' = [name |-> "run", what |-> "module", id |-> module,
                     arg |-> Some(item), ret |-> Ok(None)]
    /\ UNCHANGED returned

\* run_all: the current module has no more items; go on to the next one.
RunAllNext ==
    /\ collector.cursor \in LoweredModules
    /\ collector' = [collector EXCEPT !.cursor = @ + 1]
    /\ op' = [name |-> "run_all", what |-> "module", id |-> collector.cursor,
              arg |-> None, ret |-> Ok(None)]
    /\ UNCHANGED <<db, diagnostics, returned>>

NextCollect ==
    \/ \E kind \in DefinedKinds \ {"Enum"} : \E id \in Names : Run(kind, id, << >>)
    \/ Run("Import", "a", << >>)
    \/ \E id \in Names : \E enum_items \in EnumItemLists : Run("Enum", id, enum_items)
    \/ RunAllNext

SpecCollect == InitCollect /\ [][NextCollect]_vars

(***************************************************************************)
(* Claims about the collector.                                             *)
(***************************************************************************)
\* Places in the diagnostics `diags` of the ItemDefinedMultipleTimes ones.
ItemDuplicates(diags) ==
    {i \in 1 .. Len(diags) : diags[i].diagnostic = "ItemDefinedMultipleTimes"}

\* Places in items of the declarations the pass defines (imports excluded).
Declarations(items) == {i \in 1 .. Len(items) : items[i].kind \in DefinedKinds}

\* The names those declarations declare.
DeclaredNames(items) == {items[i].name.id : i \in Declarations(items)}

\* C9 (each item): defining a module item of any kind appends exactly one
\* ItemDefinedMultipleTimes diagnostic, for that name and file, if and only if
\* the item map of the owning module bound the name before the item was
\* defined; an import appends none.  Earlier diagnostics are kept.
C9_RunStep ==
    op'.name = "run" =>
        LET item == unwrap(op'.arg)
            module == op'.id
            before == ItemDuplicates(diagnostics)
            after == ItemDuplicates(diagnostics')
        IN  /\ SubSeq(diagnostics', 1, Len(diagnostics)) = diagnostics
            /\ IF /\ item.kind \in DefinedKinds
                  /\ is_some(db.modules[module + 1].module_item_symbols[item.name.id])
               THEN /\ Cardinality(after) = Cardinality(before) + 1
                    /\ diagnostics'[Len(diagnostics')].diagnostic
                           = "ItemDefinedMultipleTimes"
                    /\ diagnostics'[Len(diagnostics')].name = item.name.id
                    /\ diagnostics'[Len(diagnostics')].filepath = filepath(module)
               ELSE after = before

\* C9 (each module): a module that has declared n items over d distinct names
\* has n - d ItemDefinedMultipleTimes diagnostics; a name declared once in
\* each of two modules has none.
C9_Count ==
    \A m \in LoweredModules :
        Cardinality({i \in ItemDuplicates(diagnostics) :
                        diagnostics[i].filepath = filepath(m)})
            = Cardinality(Declarations(collector.hir[m]))
              - Cardinality(DeclaredNames(collector.hir[m]))

C9_Duplicates == [][C9_RunStep]_vars /\ []C9_Count

\* C9 witness: the first module declared one name three times, with three
\* kinds, and the second module declared the same name once: two diagnostics.
C9_Witness ==
    /\ Len(collector.hir[0]) = 3
    /\ Cardinality(DeclaredNames(collector.hir[0])) = 1
    /\ Cardinality({collector.hir[0][i].kind : i \in Declarations(collector.hir[0])})
           = 3
    /\ Cardinality(ItemDuplicates(diagnostics)) = 2

\* Place of the last declaration of name n among items.
LastDeclaration(items, n) ==
    CHOOSE i \in Declarations(items) :
        /\ items[i].name.id = n
        /\ \A j \in Declarations(items) : items[j].name.id = n => j <= i

\* C10: the new binding is installed whether or not a duplicate was reported:
\* at every point of the pass every name declared so far in a module is bound
\* in its item map to the entity allocated for the last declaration of that
\* name (of that declaration's kind, with its name and location, owned by the
\* module), and a name not declared is not bound.
C10_LastWins ==
    \A m \in LoweredModules : \A n \in Names :
        IF n \in DeclaredNames(collector.hir[m])
        THEN LET decl == collector.hir[m][LastDeclaration(collector.hir[m], n)]
                 bound == module_item_symbol(db, m, n)
             IN  /\ is_some(bound)
                 /\ unwrap(bound).kind = SymbolKind[decl.kind]
                 /\ contains_(db, SymbolWhat[unwrap(bound).kind], unwrap(bound).id)
                 /\ Symbol_name(db, unwrap(bound)) = decl.name
                 /\ value(what_(db, SymbolWhat[unwrap(bound).kind],
                                unwrap(bound).id)).module = m
        ELSE module_item_symbol(db, m, n) = None

\* C10 witness: a module declared a function and then a struct of the same
\* name; the duplicate was reported and the name is bound to the struct.
C10_Witness ==
    /\ Len(collector.hir[0]) = 2
    /\ collector.hir[0][1].kind = "Function"
    /\ collector.hir[0][2].kind = "Struct"
    /\ collector.hir[0][1].name.id = collector.hir[0][2].name.id
    /\ Cardinality(ItemDuplicates(diagnostics)) = 1
    /\ module_item_symbol(db, 0, collector.hir[0][2].name.id)
           = Some(Symbol("Struct", 0))
    /\ collector.cursor = 2

\* C11 (each item): the ItemDefinedMultipleTimes diagnostic a definition
\* appends carries, first, the name location of the entity the module's item
\* map bound to the name when the check ran and, second, the name location of
\* the definition being collected.
C11_RunStep ==
    op'.name = "run" =>
        \A i \in ItemDuplicates(diagnostics') \ ItemDuplicates(diagnostics) :
            LET item == unwrap(op'.arg)
                original == db.modules[op'.id + 1].module_item_symbols[item.name.id]
            IN  /\ is_some(original)
                /\ diagnostics'[i].first
                       = value(what_(db, SymbolWhat[unwrap(original).kind],
                                     unwrap(original).id)).name.location
                /\ diagnostics'[i].second = item.name.location

\* C11 (each diagnostic): the two locations of an ItemDefinedMultipleTimes
\* diagnostic are the name locations of two declarations of its name in its
\* module, the first one standing before the second with no declaration of
\* the name between them.
C11_Pairs ==
    \A i \in ItemDuplicates(diagnostics) :
        \E m \in LoweredModules :
            \E j, k \in Declarations(collector.hir[m]) :
                /\ j < k
                /\ collector.hir[m][j].name.id = diagnostics[i].name
                /\ collector.hir[m][k].name.id = diagnostics[i].name
                /\ \A l \in Declarations(collector.hir[m]) :
                       (j < l /\ l < k)
                           => collector.hir[m][l].name.id # diagnostics[i].name
                /\ diagnostics[i].first = collector.hir[m][j].name.location
                /\ diagnostics[i].second = collector.hir[m][k].name.location

C11_Locations == [][C11_RunStep]_vars /\ []C11_Pairs

\* C11 witness: the second module declared a name three times; the second
\* diagnostic points at the second declaration as the original binding and at
\* the third as the new definition.
C11_Witness ==
    /\ Len(collector.hir[1]) = 3
    /\ Len(diagnostics) = 2
    /\ diagnostics[2].diagnostic = "ItemDefinedMultipleTimes"
    /\ diagnostics[2].first = Location(filepath(1), 2, 0)
    /\ diagnostics[2].second = Location(filepath(1), 3, 0)

\* C12 (each item): no item the pass reads changes the resolved-import map of
\* any module, and an import declaration changes nothing at all: no entity is
\* allocated, no binding is added and no diagnostic is emitted for it.
C12_RunStep ==
    op'.name = "run" =>
        /\ \A m \in LoweredModules :
               resolved_imports(db', m) = resolved_imports(db, m)
        /\ unwrap(op'.arg).kind \notin DefinedKinds =>
               db' = db /\ diagnostics' = diagnostics

\* C12 (whole pass): at every point of the pass the resolved-import maps are
\* the ones the pass started with.
C12_ImportsUntouched ==
    \A m \in LoweredModules :
        resolved_imports(db, m) = resolved_imports(ImportingDatabase, m)

C12_NoImports == [][C12_RunStep]_vars /\ []C12_ImportsUntouched

\* C12 witness: the pass is over; the first module held an import between two
\* definitions, and only the two definitions left entities behind.
C12_Witness ==
    /\ collector.cursor = 2
    /\ Len(collector.hir[0]) = 3
    /\ collector.hir[0][1].kind = "Function"
    /\ collector.hir[0][2].kind = "Import"
    /\ collector.hir[0][3].kind = "Struct"
    /\ TotalEntities(db) = TotalEntities(CollectDatabase) + 2
    /\ diagnostics = << >>

(***************************************************************************)
(* The name/path resolver.  Its lookups are written from the description   *)
(* of the resolver (segments are consumed left to right, a declared item   *)
(* before a submodule, imports consulted for a bare name) on top of        *)
(* ModuleID::symbol; the import step is TypeCheckingContext::add_import_hir.*)
(***************************************************************************)
\* A path of identifiers without locations, as the resolver's callers build it.
Path(symbols) ==
    [k \in 1 .. Len(symbols) |-> IdentifierAST(symbols[k], DUMMY_LOCATION)]

\* The walk over the segments of path from segment k on, starting in module:
\* the symbol found (ret), or nothing and the place of the segment that was
\* not found (at).
RECURSIVE resolve_segments(_, _, _, _)
resolve_segments(d, module, path, k) ==
    LET found == symbol(d, module, path[k].id)
    IN  IF ~is_some(found) THEN [ret |-> None, at |-> k]
        ELSE IF k = Len(path) THEN [ret |-> found, at |-> 0]
        ELSE IF unwrap(found).kind = "Module"
             THEN resolve_segments(d, unwrap(found).id, path, k + 1)
             ELSE [ret |-> None, at |-> k + 1]

\* Resolution of an absolute path: the first segment selects a package, the
\* other segments are looked up from the root module of that package.
resolve_absolute(d, path) ==
    LET root == package_root_module(d, path[1].id)
    IN  IF ~is_some(root) \/ Len(path) = 1 THEN [ret |-> None, at |-> 1]
        ELSE resolve_segments(d, unwrap(root), path, 2)

\* GlobalContext::resolve_module_item_by_absolute_path
resolve_module_item_by_absolute_path(d, path) == resolve_absolute(d, path).ret

\* ModuleContext::resolve_module_item_path: a lookup from within module; a
\* bare name found neither as an item nor as a submodule is looked up in the
\* resolved imports of the module.
resolve_module_item_path(d, module, path) ==
    LET walked == resolve_segments(d, module, path, 1).ret
    IN  IF ~is_some(walked) /\ Len(path) = 1
        THEN resolved_imports(d, module)[path[1].id]
        ELSE walked

\* The diagnostic of a path whose segment at `location` was not found.
PathNotFound(file, name, location) ==
    [diagnostic |-> "PathNotFound", filepath |-> file, name |-> name,
     first |-> location, second |-> location]

\* A resolve_path that reports a failure at the last segment of the path.
resolve_path_ReportsLast(st, path) ==
    LET r == resolve_absolute(st.db, path)
    IN  IF is_some(r.ret) THEN [st |-> st, ret |-> r.ret]
        ELSE [st |-> [st EXCEPT !.diagnostics =
                         Append(@, PathNotFound(path[Len(path)].location[1],
                                                path[Len(path)].id,
                                                path[Len(path)].location))],
              ret |-> None]

\* ResolutionEnvironment::resolve_path, as add_import_hir calls it: the State
\* after the call (a failure is reported) and the binding found.
resolve_path(st, path) ==
    LET r == resolve_absolute(st.db, path)
    IN  IF is_some(r.ret) THEN [st |-> st, ret |-> r.ret]
        ELSE [st |-> [st EXCEPT !.diagnostics =
                         Append(@, PathNotFound(path[r.at].location[1],
                                                path[r.at].id,
                                                path[r.at].location))],
              ret |-> None]

\* An import step that always binds under the last segment of the path.
add_import_hir_IgnoresAlias(st, module, import) ==
    LET resolved == resolve_path(st, import.path)
    IN  IF ~is_some(resolved.ret) THEN resolved.st
        ELSE [resolved.st EXCEPT !.db =
                 value(add_resolved_import(resolved.st.db, module,
                                           import.path[Len(import.path)].id,
                                           unwrap(resolved.ret)))]

\* An import step that binds under the first segment of the path when no
\* alias is given.
add_import_hir_FirstSegment(st, module, import) ==
    LET name_id == IF is_some(import.as) THEN unwrap(import.as).id
                   ELSE import.path[1].id
        resolved == resolve_path(st, import.path)
    IN  IF ~is_some(resolved.ret) THEN resolved.st
        ELSE [resolved.st EXCEPT !.db =
                 value(add_resolved_import(resolved.st.db, module, name_id,
                                           unwrap(resolved.ret)))]

\* An import step that resolves the path once to test it and once more to
\* bind it.
add_import_hir_ResolvesTwice(st, module, import) ==
    LET name_id == IF is_some(import.as) THEN unwrap(import.as).id
                   ELSE import.path[Len(import.path)].id
        tested == resolve_path(st, import.path)
        resolved == resolve_path(tested.st, import.path)
    IN  IF ~is_some(resolved.ret) THEN resolved.st
        ELSE [resolved.st EXCEPT !.db =
                 value(add_resolved_import(resolved.st.db, module, name_id,
                                           unwrap(resolved.ret)))]

\* An import step that writes the import table of the root module.
add_import_hir_IntoRoot(st, module, import) ==
    LET name_id == IF is_some(import.as) THEN unwrap(import.as).id
                   ELSE import.path[Len(import.path)].id
        resolved == resolve_path(st, import.path)
    IN  IF ~is_some(resolved.ret) THEN resolved.st
        ELSE [resolved.st EXCEPT !.db =
                 value(add_resolved_import(resolved.st.db, 0, name_id,
                                           unwrap(resolved.ret)))]

\* TypeCheckingContext::add_import_hir, the import table being the resolved
\* imports of the importing module.
add_import_hir(st, module, import) ==
    LET name_id == IF is_some(import.as) THEN unwrap(import.as).id
                   ELSE import.path[Len(import.path)].id
        resolved == resolve_path(st, import.path)
    IN  IF ~is_some(resolved.ret) THEN resolved.st
        ELSE [resolved.st EXCEPT !.db =
                 value(add_resolved_import(resolved.st.db, module, name_id,
                                           unwrap(resolved.ret)))]

(***************************************************************************)
(* Specification of a compilation unit: package "a" with root module "a"   *)
(* and its submodule "b".  The lowered modules are handed over first.      *)
(* Phase 1 is run_all over them; phase 2 visits the items again, module by *)
(* module, and resolves the imports.  Phase 2 starts when run_all has      *)
(* returned.                                                               *)
(***************************************************************************)
\* Module items the lowered modules of the unit hold in total.
MaxUnitItems == 3

\* The declarations and imports a lowered module of the unit is made of.
UnitItems ==
    {[kind |-> "Function", id |-> "a", path |-> << >>, as |-> None],
     [kind |-> "Function", id |-> "b", path |-> << >>, as |-> None],
     [kind |-> "Struct", id |-> "a", path |-> << >>, as |-> None],
     [kind |-> "Import", id |-> "a", path |-> << "a", "b", "a" >>, as |-> None],
     [kind |-> "Import", id |-> "a", path |-> << "a", "b", "a" >>, as |-> Some("b")],
     [kind |-> "Import", id |-> "a", path |-> << "a", "a" >>, as |-> None],
     [kind |-> "Import", id |-> "b", path |-> << "a", "b" >>, as |-> None],
     [kind |-> "Import", id |-> "b", path |-> << "a", "b" >>, as |-> Some("a")],
     [kind |-> "Import", id |-> "a", path |-> << "b", "a" >>, as |-> None]}

\* The HIR item at place index of module: identifiers located where they
\* stand, the segments of an import path at places 1, 2, ... and its alias
\* after them.
UnitItem(module, index, item) ==
    [kind |-> item.kind,
     name |-> IdentifierAST(item.id, Location(filepath(module), index, 0)),
     items |-> << >>,
     path |-> [k \in 1 .. Len(item.path) |->
                  IdentifierAST(item.path[k], Location(filepath(module), index, k))],
     as |-> IF is_some(item.as)
            THEN Some(IdentifierAST(unwrap(item.as),
                                    Location(filepath(module), index,
                                             Len(item.path) + 1)))
            ELSE None]

\* The Database of the unit before phase 1: the module tree of
\* CollectDatabase, its root registered as package "a".
UnitDatabase == value(add_package(CollectDatabase, 0))

InitUnit ==
    /\ db = UnitDatabase
    /\ diagnostics = << >>
    /\ op = NoOp
    /\ returned = [what \in Whats |->
                      [i \in 1 .. Len(UnitDatabase[whats(what)]) |-> i - 1]]
    /\ collector = [cursor |-> 0, hir |-> [m \in LoweredModules |-> << >>],
                    lowered |-> [m \in LoweredModules |-> << >>],
                    lowering |-> TRUE,
                    imports |-> [cursor |-> 0, item |-> 0]]

\* Before phase 1 the lowering stage hands over the modules, the root module
\* first: the next item of a lowered module.
Lower(module, item) ==
    /\ collector.lowering
    /\ ItemsRead(collector.lowered, 0) < MaxUnitItems
    /\ \A later \in LoweredModules : later > module => collector.lowered[later] = << >>
    /\ collector' = [collector EXCEPT !.lowered[module] =
                        Append(@, UnitItem(module, Len(@) + 1, item))]
    /\ op' = [name |-> "lower", what |-> "module", id |-> module,
              arg |-> Some(item), ret |-> Ok(None)]
    /\ UNCHANGED <<db, diagnostics, returned>>

\* run_all is called with the lowered modules.
RunAll ==
    /\ collector.lowering
    /\ collector' = [collector EXCEPT !.lowering = FALSE]
    /\ op' = [name |-> "run_all", what |-> "module", id |-> 0,
              arg |-> None, ret |-> Ok(None)]
    /\ UNCHANGED <<db, diagnostics, returned>>

\* run_all has returned: every module went through run.
CollectionFinished ==
    ~collector.lowering /\ collector.cursor = Len(UnitDatabase.modules)

\* Phase 1, run: the next item of the module run_all is at.
Collect ==
    /\ ~collector.lowering
    /\ collector.cursor \in LoweredModules
    /\ Len(collector.hir[collector.cursor])
           < Len(collector.lowered[collector.cursor])
    /\ LET module == collector.cursor
           item == collector.lowered[module][Len(collector.hir[module]) + 1]
           st == run([db |-> db, diagnostics |-> diagnostics], module, item)
       IN  /\ db' = st.db
           /\ diagnostics' = st.diagnostics
           /\ collector' = [collector EXCEPT !.hir[module] = Append(@, item)]
           /\ op' = [name |-> "run", what |-> "module", id |-> module,
                     arg |-> Some(item), ret |-> Ok(None)]
    /\ UNCHANGED returned

\* Phase 1, run_all: the module has no more items; on to the next module.
CollectNext ==
    /\ ~collector.lowering
    /\ collector.cursor \in LoweredModules
    /\ Len(collector.hir[collector.cursor])
           = Len(collector.lowered[collector.cursor])
    /\ collector' = [collector EXCEPT !.cursor = @ + 1]
    /\ op' = [name |-> "run_all_next", what |-> "module", id |-> collector.cursor,
              arg |-> None, ret |-> Ok(None)]
    /\ UNCHANGED <<db, diagnostics, returned>>

\* Phase 2: the next item of the module whose imports are being resolved; an
\* import goes through add_import_hir, any other item is passed over.
ProcessImport ==
    /\ CollectionFinished
    /\ collector.imports.cursor \in LoweredModules
    /\ collector.imports.item < Len(collector.lowered[collector.imports.cursor])
    /\ LET module == collector.imports.cursor
           item == collector.lowered[module][collector.imports.item + 1]
           st0 == [db |-> db, diagnostics |-> diagnostics]
           st == IF item.kind = "Import" THEN add_import_hir(st0, module, item)
                 ELSE st0
       IN  /\ db' = st.db
           /\ diagnostics' = st.diagnostics
           /\ collector' = [collector EXCEPT !.imports.item = @ + 1]
           /\ op' = [name |-> "process_imports", what |-> "module", id |-> module,
                     arg |-> Some(item), ret |-> Ok(None)]
    /\ UNCHANGED returned

\* Phase 2: the module has no more items; on to the imports of the next one.
ProcessImportsNext ==
    /\ CollectionFinished
    /\ collector.imports.cursor \in LoweredModules
    /\ collector.imports.item = Len(collector.lowered[collector.imports.cursor])
    /\ collector' = [collector EXCEPT !.imports =
                        [cursor |-> collector.imports.cursor + 1, item |-> 0]]
    /\ op' = [name |-> "process_imports_next", what |-> "module",
              id |-> collector.imports.cursor, arg |-> None, ret |-> Ok(None)]
    /\ UNCHANGED <<db, diagnostics, returned>>

NextUnit ==
    \/ \E module \in LoweredModules : \E item \in UnitItems : Lower(module, item)
    \/ RunAll
    \/ Collect
    \/ CollectNext
    \/ ProcessImport
    \/ ProcessImportsNext

SpecUnit == InitUnit /\ [][NextUnit]_vars

(***************************************************************************)
(* Claims about the phases of a unit.                                      *)
(***************************************************************************)
\* Places in diags of the PathNotFound diagnostics.
PathsNotFound(diags) ==
    {i \in 1 .. Len(diags) : diags[i].diagnostic = "PathNotFound"}

\* C13 (before the barrier): as long as some module has not finished
\* Definition Collection no import has been looked at: every import table is
\* empty, no path was reported as not found and phase 2 stands at its start.
C13_NothingResolvedEarly ==
    ~CollectionFinished =>
        /\ \A m \in LoweredModules : resolved_imports(db, m) = EmptyMap
        /\ PathsNotFound(diagnostics) = {}
        /\ collector.imports = [cursor |-> 0, item |-> 0]

\* C13 (each import): when an import is resolved every module has been
\* collected in full, and an import `a.b.n` in the root module, collected
\* first, of an item n declared in the submodule b, collected later, is bound
\* to the entity of the last declaration of n in b (the root module declaring
\* no item b of its own, which would stand before the submodule).
C13_ImportStep ==
    (op'.name = "process_imports" /\ unwrap(op'.arg).kind = "Import") =>
        LET item == unwrap(op'.arg)
            path == item.path
            name_id == IF is_some(item.as) THEN unwrap(item.as).id
                       ELSE path[Len(path)].id
            later == collector.lowered[1]
        IN  /\ \A m \in LoweredModules : collector.hir[m] = collector.lowered[m]
            /\ (/\ op'.id = 0
                /\ Len(path) = 3
                /\ path[1].id = "a"
                /\ path[2].id = "b"
                /\ "b" \notin DeclaredNames(collector.lowered[0])
                /\ path[3].id \in DeclaredNames(later))
               => LET decl == later[LastDeclaration(later, path[3].id)]
                      bound == resolved_imports(db', 0)[name_id]
                  IN  /\ is_some(bound)
                      /\ unwrap(bound).kind = SymbolKind[decl.kind]
                      /\ Symbol_name(db', unwrap(bound)) = decl.name
                      /\ diagnostics' = diagnostics

StackOverflow == <<"stack overflow">>

\* GenericParameterScopeID::parent_scope
parent_scope(d, self) == value(what_(d, "generic_parameter_scope", self)).parent_scope

\* GenericParameterScopeID::parameters
parameters(d, self) == value(what_(d, "generic_parameter_scope", self)).parameters

\* An insertion that also declares the parameter in the parent scope.
add_generic_parameter_IntoParent(d, self, parameter_name, parameter) ==
    IF is_ok(what_mut(d, "generic_parameter_scope", self))
    THEN LET local == [d EXCEPT !.generic_parameter_scopes[self + 1].parameters =
                          insert(@, parameter_name, parameter)]
         IN  Ok(IF is_some(parent_scope(d, self))
                   /\ contains_(d, "generic_parameter_scope",
                                unwrap(parent_scope(d, self)))
                THEN [local EXCEPT
                         !.generic_parameter_scopes[unwrap(parent_scope(d, self)) + 1]
                              .parameters = insert(@, parameter_name, parameter)]
                ELSE local)
    ELSE InvalidHandle

\* GenericParameterScopeID::add_generic_parameter: the Database after the
\* call, or the panic of generic_parameter_scope_mut.
add_generic_parameter(d, self, parameter_name, parameter) ==
    IF is_ok(what_mut(d, "generic_parameter_scope", self))
    THEN Ok([d EXCEPT !.generic_parameter_scopes[self + 1].parameters =
                          insert(@, parameter_name, parameter)])
    ELSE InvalidHandle

\* A lookup that asks the parent scope first.
RECURSIVE resolve_OutermostFirst(_, _, _, _)
resolve_OutermostFirst(d, self, parameter_name, calls) ==
    IF calls > Len(d.generic_parameter_scopes) THEN StackOverflow
    ELSE IF ~is_ok(what_(d, "generic_parameter_scope", self)) THEN InvalidHandle
    ELSE LET outer == IF is_some(parent_scope(d, self))
                      THEN resolve_OutermostFirst(d, unwrap(parent_scope(d, self)),
                                                  parameter_name, calls + 1)
                      ELSE Ok(None)
         IN  IF outer = Ok(None) THEN Ok(parameters(d, self)[parameter_name])
             ELSE outer

\* A lookup that stops at the scope it is asked in.
resolve_LocalOnly(d, self, parameter_name, calls) ==
    IF ~is_ok(what_(d, "generic_parameter_scope", self)) THEN InvalidHandle
    ELSE Ok(parameters(d, self)[parameter_name])

\* GenericParameterScopeID::resolve, entered for the calls-th time in one
\* lookup: the parameter found or None, the panic of an invalid scope handle,
\* or a recursion that does not return.
RECURSIVE resolve_call(_, _, _, _)
resolve_call(d, self, parameter_name, calls) ==
    IF calls > Len(d.generic_parameter_scopes) THEN StackOverflow
    ELSE IF ~is_ok(what_(d, "generic_parameter_scope", self)) THEN InvalidHandle
    ELSE IF is_some(parameters(d, self)[parameter_name])
         THEN Ok(Some(unwrap(parameters(d, self)[parameter_name])))
    ELSE IF is_some(parent_scope(d, self))
         THEN resolve_call(d, unwrap(parent_scope(d, self)), parameter_name,
                           calls + 1)
    ELSE Ok(None)

\* GenericParameterScopeID::resolve
resolve(d, self, parameter_name) == resolve_call(d, self, parameter_name, 1)

\* A check that looks at the scope it is asked in only.
contains_LocalOnly(d, self, parameter_name, calls) ==
    IF ~is_ok(what_(d, "generic_parameter_scope", self)) THEN InvalidHandle
    ELSE Ok(is_some(parameters(d, self)[parameter_name]))

\* GenericParameterScopeID::contains, entered for the calls-th time in one
\* check.
RECURSIVE contains_call(_, _, _, _)
contains_call(d, self, parameter_name, calls) ==
    IF calls > Len(d.generic_parameter_scopes) THEN StackOverflow
    ELSE IF ~is_ok(what_(d, "generic_parameter_scope", self)) THEN InvalidHandle
    ELSE IF is_some(parameters(d, self)[parameter_name]) THEN Ok(TRUE)
    ELSE IF is_some(parent_scope(d, self))
         THEN contains_call(d, unwrap(parent_scope(d, self)), parameter_name,
                            calls + 1)
    ELSE Ok(FALSE)

\* GenericParameterScopeID::contains
contains(d, self, parameter_name) == contains_call(d, self, parameter_name, 1)

(***************************************************************************)
(* Specification of the generic parameter scopes: scopes are allocated     *)
(* under a scope allocated before them (or under none), parameters are     *)
(* declared in them and looked up from them.                               *)
(***************************************************************************)
\* Generic parameter scopes allocated in the Database.
MaxScopes == 3

\* The Database the scopes are built in: two generic parameters, no scope.
ScopeDatabase ==
    LET d1 == add_(Database_new, "generic_parameter",
                   GenericParameterData_new(Location(1, 1, 1), None)).db
    IN  add_(d1, "generic_parameter",
             GenericParameterData_new(Location(1, 2, 1), None)).db

\* The name parameters are declared under and asked for.
ParameterNames == {"a"}

InitScopes ==
    /\ db = ScopeDatabase
    /\ diagnostics = << >>
    /\ op = NoOp
    /\ returned = [what \in Whats |->
                      [i \in 1 .. Len(ScopeDatabase[whats(what)]) |-> i - 1]]
    /\ collector = NotCollecting

\* The scope handles add_generic_parameter_scope has returned so far.
ScopeHandles ==
    {returned["generic_parameter_scope"][i] :
        i \in 1 .. Len(returned["generic_parameter_scope"])}

\* The parents a new scope is given: scopes mirror the lexical nesting of the
\* declarations, so a scope is allocated as a root or under the scope of the
\* enclosing declaration, which was allocated before it.
ScopeParents == {None} \cup {Some(h) : h \in ScopeHandles}

\* The handles of the generic parameters of the Database.
ParameterHandles == 0 .. Len(db.generic_parameters) - 1

\* add_generic_parameter_scope(GenericParameterScopeData::new(parent_scope)),
\* the parent being a handle the caller holds.
AddScope(parent) ==
    /\ Len(db.generic_parameter_scopes) < MaxScopes
    /\ LET data == GenericParameterScopeData_new(parent)
           r == add_(db, "generic_parameter_scope", data)
       IN  /\ db' = r.db
           /\ op' = [name |-> "add", what |-> "generic_parameter_scope",
                     id |-> r.id, arg |-> Some(data), ret |-> Ok(r.id)]
           /\ returned' = [returned EXCEPT !["generic_parameter_scope"] =
                                              Append(@, r.id)]
    /\ UNCHANGED <<diagnostics, collector>>

AddGenericParameter(scope, parameter_name, parameter) ==
    /\ LET r == add_generic_parameter(db, scope, parameter_name, parameter)
       IN  /\ db' = After(r)
           /\ op' = [name |-> "add_generic_parameter",
                     what |-> "generic_parameter_scope", id |-> scope,
                     arg |-> <<parameter_name, parameter>>, ret |-> Unit(r)]
    /\ UNCHANGED <<diagnostics, returned, collector>>

Resolve(scope, parameter_name) ==
    /\ op' = [name |-> "resolve", what |-> "generic_parameter_scope",
              id |-> scope, arg |-> <<parameter_name>>,
              ret |-> resolve(db, scope, parameter_name)]
    /\ UNCHANGED <<db, diagnostics, returned, collector>>

ContainsParameter(scope, parameter_name) ==
    /\ op' = [name |-> "contains_parameter", what |-> "generic_parameter_scope",
              id |-> scope, arg |-> <<parameter_name>>,
              ret |-> contains(db, scope, parameter_name)]
    /\ UNCHANGED <<db, diagnostics, returned, collector>>

NextScopes ==
    \/ \E parent \in ScopeParents : AddScope(parent)
    \/ \E scope \in ScopeHandles : \E n \in ParameterNames :
          \E parameter \in ParameterHandles : AddGenericParameter(scope, n, parameter)
    \/ \E scope \in ScopeHandles : \E n \in ParameterNames : Resolve(scope, n)
    \/ \E scope \in ScopeHandles : \E n \in ParameterNames :
          ContainsParameter(scope, n)

SpecScopes == InitScopes /\ [][NextScopes]_vars

(***************************************************************************)
(* Claims about the generic parameter scopes.                              *)
(***************************************************************************)
\* The scope k parent links above scope s, if the chain is that long.
RECURSIVE Ancestor(_, _, _)
Ancestor(d, s, k) ==
    IF k = 0 THEN Some(s)
    ELSE LET below == Ancestor(d, s, k - 1)
         IN  IF is_some(below) /\ contains_(d, "generic_parameter_scope", unwrap(below))
             THEN d.generic_parameter_scopes[unwrap(below) + 1].parent_scope
             ELSE None

\* The scopes on the chain from s to its root, s included, following at most
\* fuel parent links.
RECURSIVE ChainUp(_, _, _)
ChainUp(d, s, fuel) ==
    IF fuel = 0 \/ ~contains_(d, "generic_parameter_scope", s) THEN {}
    ELSE LET parent == d.generic_parameter_scopes[s + 1].parent_scope
         IN  {s} \cup (IF is_some(parent) THEN ChainUp(d, unwrap(parent), fuel - 1)
                       ELSE {})

Chain(d, s) == ChainUp(d, s, Len(d.generic_parameter_scopes))

\* The distances from s of the scopes of its chain that declare name n.
Declaring(d, s, n) ==
    {k \in 0 .. Len(d.generic_parameter_scopes) - 1 :
        /\ is_some(Ancestor(d, s, k))
        /\ is_some(d.generic_parameter_scopes[unwrap(Ancestor(d, s, k)) + 1]
                       .parameters[n])}

\* The nearest of them.
Nearest(d, s, n) == CHOOSE k \in Declaring(d, s, n) : \A j \in Declaring(d, s, n) : k <= j

\* The valid scope handles of the Database.
Scopes == 0 .. Len(db.generic_parameter_scopes) - 1

\* C14 (each call): resolve returns the parameter the scope's own map binds
\* to the name if there is one, otherwise what resolve returns on the parent
\* scope, and nothing when there is no parent.
C14_ResolveStep ==
    op'.name = "resolve" =>
        LET scope == db.generic_parameter_scopes[op'.id + 1]
            local == scope.parameters[op'.arg[1]]
        IN  op'.ret = IF is_some(local) THEN Ok(local)
                      ELSE IF is_some(scope.parent_scope)
                           THEN resolve(db, unwrap(scope.parent_scope), op'.arg[1])
                           ELSE Ok(None)

\* C14 (no child is inspected): declaring a parameter in a scope that is not
\* on the chain of scope s changes no lookup made from s.
C14_ChildStep ==
    op'.name = "add_generic_parameter" =>
        \A s \in Scopes : \A n \in Names :
            op'.id \notin Chain(db, s) => resolve(db', s, n) = resolve(db, s, n)

\* C14 (every scope and name): resolve yields the parameter declared under
\* the name by the nearest scope of the chain that declares it, and nothing
\* when no scope of the chain does.
C14_Nearest ==
    \A s \in Scopes : \A n \in Names :
        resolve(db, s, n)
            = IF Declaring(db, s, n) = {} THEN Ok(None)
              ELSE Ok(db.generic_parameter_scopes
                          [unwrap(Ancestor(db, s, Nearest(db, s, n))) + 1].parameters[n])

C14_Resolve == [][C14_ResolveStep /\ C14_ChildStep]_vars /\ []C14_Nearest

\* C14 witness: resolve asked in the leaf of a chain of three scopes returned
\* (2 -> 1 -> 0) returned the parameter that only the root declares.
C14_Witness ==
    /\ op.name = "resolve"
    /\ op.id = 2
    /\ op.arg = <<"a">>
    /\ Len(db.generic_parameter_scopes) = 3
    /\ db.generic_parameter_scopes[3].parent_scope = Some(1)
    /\ db.generic_parameter_scopes[2].parent_scope = Some(0)
    /\ db.generic_parameter_scopes[1].parameters["a"] = Some(1)
    /\ db.generic_parameter_scopes[2].parameters["a"] = None
    /\ db.generic_parameter_scopes[3].parameters["a"] = None
    /\ op.ret = Ok(Some(1))

\* C15 (each call): contains returns true exactly when resolve, asked in the
\* same scope for the same name, returns a parameter.
C15_ContainsStep ==
    op'.name = "contains_parameter" =>
        LET found == resolve(db, op'.id, op'.arg[1])
        IN  is_ok(found) /\ op'.ret = Ok(is_some(value(found)))

\* C15 (every scope and name): contains is true exactly when resolve returns
\* a parameter.
C15_Agree ==
    \A s \in Scopes : \A n \in Names :
        LET found == resolve(db, s, n)
        IN  is_ok(found) /\ contains(db, s, n) = Ok(is_some(value(found)))

C15_Contains == [][C15_ContainsStep]_vars /\ []C15_Agree

\* C15 witness: contains was asked in a scope that does not declare the name
\* itself; its parent does, and contains returned true.
C15_Witness ==
    /\ op.name = "contains_parameter"
    /\ op.id = 1
    /\ op.arg = <<"a">>
    /\ db.generic_parameter_scopes[2].parent_scope = Some(0)
    /\ db.generic_parameter_scopes[2].parameters["a"] = None
    /\ db.generic_parameter_scopes[1].parameters["a"] = Some(0)
    /\ op.ret = Ok(TRUE)

\* Number of scopes on the chain of s.
ChainLength(d, s) ==
    Cardinality({k \in 0 .. Len(d.generic_parameter_scopes) :
                    is_some(Ancestor(d, s, k))})

\* C16: on the chain from a scope Sn up to its root S0, a name declared by S0
\* and by a scope Sk nearer to Sn (Sk the innermost scope declaring it)
\* resolves from Sn to the parameter of Sk, so to the parameter of S0 only if
\* Sk declares that very parameter.
C16_Shadowing ==
    \A sn \in Scopes : \A n \in Names :
        LET root == ChainLength(db, sn) - 1
        IN  (root \in Declaring(db, sn, n) /\ Nearest(db, sn, n) < root) =>
                LET sk == unwrap(Ancestor(db, sn, Nearest(db, sn, n)))
                    s0 == unwrap(Ancestor(db, sn, root))
                    of_sk == db.generic_parameter_scopes[sk + 1].parameters[n]
                    of_s0 == db.generic_parameter_scopes[s0 + 1].parameters[n]
                IN  /\ resolve(db, sn, n) = Ok(of_sk)
                    /\ of_sk # of_s0 => resolve(db, sn, n) # Ok(of_s0)

\* C16 witness: in the chain 2 -> 1 -> 0 the root declares the name as
\* parameter 0 and the middle scope as parameter 1; resolve asked in the
\* leaf returned parameter 1.
C16_Witness ==
    /\ op.name = "resolve"
    /\ op.id = 2
    /\ op.arg = <<"a">>
    /\ Len(db.generic_parameter_scopes) = 3
    /\ db.generic_parameter_scopes[3].parent_scope = Some(1)
    /\ db.generic_parameter_scopes[2].parent_scope = Some(0)
    /\ db.generic_parameter_scopes[1].parameters["a"] = Some(0)
    /\ db.generic_parameter_scopes[2].parameters["a"] = Some(1)
    /\ db.generic_parameter_scopes[3].parameters["a"] = None
    /\ op.ret = Ok(Some(1))

\* C17: add_generic_parameter returns normally, emits no diagnostic and
\* inserts the binding in the map of its scope; the parent link of that scope,
\* every other scope, every other arena and the package registry are as
\* before, and resolve asked in an ancestor of the scope returns what it
\* returned before, also when an ancestor declares the name already.
C17_AddStep ==
    op'.name = "add_generic_parameter" =>
        LET scope == op'.id
            before == db.generic_parameter_scopes
            after == db'.generic_parameter_scopes
        IN  /\ op'.ret = Ok(None)
            /\ diagnostics' = diagnostics
            /\ Len(after) = Len(before)
            /\ after[scope + 1].parent_scope = before[scope + 1].parent_scope
            /\ after[scope + 1].parameters
                   = insert(before[scope + 1].parameters, op'.arg[1], op'.arg[2])
            /\ \A other \in Scopes \ {scope} : after[other + 1] = before[other + 1]
            /\ \A field \in DOMAIN db \ {"generic_parameter_scopes"} :
                   db'[field] = db[field]
            /\ \A ancestor \in Chain(db, scope) \ {scope} : \A n \in Names :
                   resolve(db', ancestor, n) = resolve(db, ancestor, n)

C17_LocalOnly == [][C17_AddStep]_vars

\* C17 witness: the root scope declares the name as parameter 0; its child
\* has just declared the same name as parameter 1.
C17_Witness ==
    /\ op.name = "add_generic_parameter"
    /\ op.id = 1
    /\ op.arg = <<"a", 1>>
    /\ op.ret = Ok(None)
    /\ db.generic_parameter_scopes[2].parent_scope = Some(0)
    /\ db.generic_parameter_scopes[1].parameters["a"] = Some(0)
    /\ db.generic_parameter_scopes[2].parameters["a"] = Some(1)
    /\ diagnostics = << >>

MaxImports == 2

\* The import declarations the root module may hold.
RootImports ==
    {[kind |-> "Import", id |-> "b", path |-> << "a", "b" >>, as |-> None],
     [kind |-> "Import", id |-> "b", path |-> << "a", "b" >>, as |-> Some("c")],
     [kind |-> "Import", id |-> "b", path |-> << "a", "b" >>, as |-> Some("a")],
     [kind |-> "Import", id |-> "a", path |-> << "a", "a" >>, as |-> None],
     [kind |-> "Import", id |-> "a", path |-> << "b", "a" >>, as |-> Some("c")]}

\* The paths looked up.
LookupPaths ==
    {<< "a" >>, << "b" >>, << "c" >>, << "a", "a" >>, << "a", "b" >>,
     << "b", "a" >>, << "b", "b" >>, << "a", "a", "b" >>}

InitResolve ==
    /\ db = TreeDatabase
    /\ diagnostics = << >>
    /\ op = NoOp
    /\ returned = [what \in Whats |->
                      [i \in 1 .. Len(TreeDatabase[whats(what)]) |-> i - 1]]
    /\ collector = NotCollecting

\* The tree is complete: the root module has begun to resolve its imports.
ImportsBegun == Len(collector.hir) > 0

\* Database::add_package while the tree is built.
BuildPackage(root_module) ==
    /\ ~ImportsBegun
    /\ db' = value(add_package(db, root_module))
    /\ op' = [name |-> "add_package", what |-> "module", id |-> root_module,
              arg |-> None, ret |-> Ok(None)]
    /\ UNCHANGED <<diagnostics, returned, collector>>

\* ModuleID::add_submodule while the tree is built.
BuildSubmodule(self, module) ==
    /\ ~ImportsBegun
    /\ db' = value(add_submodule(db, self, module))
    /\ op' = [name |-> "add_submodule", what |-> "module", id |-> self,
              arg |-> <<module>>, ret |-> Ok(None)]
    /\ UNCHANGED <<diagnostics, returned, collector>>

\* ModuleID::add_module_item while the tree is built.
BuildModuleItem(self, name, sym) ==
    /\ ~ImportsBegun
    /\ db' = value(add_module_item(db, self, name, sym))
    /\ op' = [name |-> "add_module_item", what |-> "module", id |-> self,
              arg |-> <<name, sym>>, ret |-> Ok(None)]
    /\ UNCHANGED <<diagnostics, returned, collector>>

\* The next import declaration of the root module goes through
\* add_import_hir.
ResolveImport(import) ==
    /\ Len(collector.hir) < MaxImports
    /\ LET item == UnitItem(0, Len(collector.hir) + 1, import)
           st == add_import_hir([db |-> db, diagnostics |-> diagnostics], 0, item)
       IN  /\ db' = st.db
           /\ diagnostics' = st.diagnostics
           /\ collector' = [collector EXCEPT !.hir = Append(@, item)]
           /\ op' = [name |-> "add_import_hir", what |-> "module", id |-> 0,
                     arg |-> Some(item), ret |-> Ok(None)]
    /\ UNCHANGED returned

\* A lookup of an absolute path.
ResolveAbsolute(path) ==
    /\ op' = [name |-> "resolve_module_item_by_absolute_path", what |-> "module",
              id |-> 0, arg |-> path,
              ret |-> resolve_module_item_by_absolute_path(db, Path(path))]
    /\ UNCHANGED <<db, diagnostics, returned, collector>>

\* A lookup of a path from within a module.
ResolveInModule(module, path) ==
    /\ op' = [name |-> "resolve_module_item_path", what |-> "module",
              id |-> module, arg |-> path,
              ret |-> resolve_module_item_path(db, module, Path(path))]
    /\ UNCHANGED <<db, diagnostics, returned, collector>>

NextResolve ==
    \/ \E root_module \in {0, 2} : BuildPackage(root_module)
    \/ \E module \in {1, 2} : BuildSubmodule(0, module)
    \/ \E name \in Names : BuildModuleItem(0, name, Symbol("Function", 0))
    \/ \E import \in RootImports : ResolveImport(import)
    \/ \E path \in LookupPaths : ResolveAbsolute(path)
    \/ \E path \in LookupPaths : ResolveInModule(0, path)

SpecResolve == InitResolve /\ [][NextResolve]_vars

(***************************************************************************)
(* Claims about the lookups.                                               *)
(***************************************************************************)
\* What an absolute path of up to three segments denotes in Database d: the
\* first segment names a package, each further segment an item or, failing
\* that, a submodule of the module reached so far.
Denoted(d, path) ==
    LET root == d.packages[path[1]]
        second == IF is_some(d.modules[unwrap(root) + 1].module_item_symbols[path[2]])
                  THEN d.modules[unwrap(root) + 1].module_item_symbols[path[2]]
                  ELSE map_Symbol_Module(d.modules[unwrap(root) + 1].submodules[path[2]])
        through == d.modules[unwrap(second).id + 1]
    IN  IF Len(path) = 1 \/ ~is_some(root) THEN None
        ELSE IF Len(path) = 2 THEN second
        ELSE IF ~is_some(second) \/ unwrap(second).kind # "Module" THEN None
        ELSE IF is_some(through.module_item_symbols[path[3]])
             THEN through.module_item_symbols[path[3]]
             ELSE map_Symbol_Module(through.submodules[path[3]])

\* C19 (each lookup): an absolute lookup returns what the path denotes: its
\* first segment selects a registered package and the other segments are
\* looked up from the root module of that package; the name of a package
\* alone, and a path whose first segment is no registered package, yield
\* nothing.
C19_AbsoluteStep ==
    op'.name = "resolve_module_item_by_absolute_path" =>
        op'.ret = Denoted(db, op'.arg)

\* C19 (the tree of the claim): whenever package a is registered with root
\* module 0, module 0 has the submodule a and declares no item a, and no
\* package b is registered, [a, a] resolves to that submodule as a Module
\* symbol and [a] and [b] resolve to nothing.
C19_PackageTree ==
    (/\ db.packages["a"] = Some(0)
     /\ db.packages["b"] = None
     /\ db.modules[1].submodules["a"] = Some(1)
     /\ db.modules[1].module_item_symbols["a"] = None) =>
        /\ resolve_module_item_by_absolute_path(db, Path(<< "a", "a" >>))
               = Some(Symbol("Module", 1))
        /\ resolve_module_item_by_absolute_path(db, Path(<< "a" >>)) = None
        /\ resolve_module_item_by_absolute_path(db, Path(<< "b" >>)) = None
        /\ resolve_module_item_by_absolute_path(db, Path(<< "b", "a" >>)) = None

C19_Absolute == [][C19_AbsoluteStep]_vars /\ []C19_PackageTree

\* C19 witness: package a is registered, its root has the submodule a, and
\* the lookup of [a, a] returned that submodule.
C19_Witness ==
    /\ db.packages["a"] = Some(0)
    /\ db.packages["b"] = None
    /\ db.modules[1].submodules["a"] = Some(1)
    /\ db.modules[1].module_item_symbols["a"] = None
    /\ op.name = "resolve_module_item_by_absolute_path"
    /\ op.arg = << "a", "a" >>
    /\ op.ret = Some(Symbol("Module", 1))

\* The import declarations read so far that are `import a.b` with alias as.
ImportsOfAB(as) ==
    {i \in 1 .. Len(collector.hir) :
        /\ collector.hir[i].path = UnitItem(0, i, [kind |-> "Import", id |-> "b",
                                                   path |-> << "a", "b" >>,
                                                   as |-> as]).path
        /\ collector.hir[i].as = UnitItem(0, i, [kind |-> "Import", id |-> "b",
                                                 path |-> << "a", "b" >>,
                                                 as |-> as]).as}

\* C20: once the root module of package a has resolved `import a.b` and
\* `import a.b as c`, and a.b exists, the lookups of [b] and of [c] from
\* within that module yield the symbol the absolute lookup of [a, b] yields,
\* and the lookup of [b, b] yields nothing.
C20_RoundTrip ==
    LET absolute == resolve_module_item_by_absolute_path(db, Path(<< "a", "b" >>))
    IN  (/\ ImportsOfAB(None) # {}
         /\ ImportsOfAB(Some("c")) # {}
         /\ is_some(absolute)) =>
            /\ resolve_module_item_path(db, 0, Path(<< "b" >>)) = absolute
            /\ resolve_module_item_path(db, 0, Path(<< "c" >>)) = absolute
            /\ resolve_module_item_path(db, 0, Path(<< "b", "b" >>)) = None

\* C20 witness: package a with the submodule b; the root module resolved
\* both imports without a diagnostic and the lookup of [c] from within it
\* returned the module b.
C20_Witness ==
    /\ db.packages["a"] = Some(0)
    /\ db.modules[1].submodules["b"] = Some(2)
    /\ db.modules[1].module_item_symbols["b"] = None
    /\ ImportsOfAB(None) = {1}
    /\ ImportsOfAB(Some("c")) = {2}
    /\ diagnostics = << >>
    /\ op.name = "resolve_module_item_path"
    /\ op.arg = << "c" >>
    /\ op.ret = Some(Symbol("Module", 2))
    /\ resolve_module_item_by_absolute_path(db, Path(<< "a", "b" >>))
           = Some(Symbol("Module", 2))

\* C21 (each lookup): the lookup of a bare name from within a module returns
\* the declared item of that name if there is one, otherwise the submodule of
\* that name if there is one, and the resolved import of that name only when
\* the module has neither.
C21_BareStep ==
    (op'.name = "resolve_module_item_path" /\ Len(op'.arg) = 1) =>
        LET module == db.modules[op'.id + 1]
            n == op'.arg[1]
        IN  op'.ret = IF is_some(module.module_item_symbols[n])
                      THEN module.module_item_symbols[n]
                      ELSE IF is_some(module.submodules[n])
                           THEN Some(Symbol("Module", unwrap(module.submodules[n])))
                           ELSE module.resolved_imports[n]

\* C21 (every module and name): a bare name that is declared or is a
\* submodule never resolves to the import of the same name, unless the import
\* is bound to the very same symbol.
C21_Precedence ==
    \A m \in 0 .. Len(db.modules) - 1 : \A n \in Identifiers :
        LET found == resolve_module_item_path(db, m, Path(<< n >>))
        IN  is_some(symbol(db, m, n)) =>
                /\ found = symbol(db, m, n)
                /\ resolved_imports(db, m)[n] # symbol(db, m, n)
                       => found # resolved_imports(db, m)[n]

C21_ItemsFirst == [][C21_BareStep]_vars /\ []C21_Precedence

\* C21 witness: the root module has the submodule a (module 1) and the
\* import a bound to module 2; the lookup of [a] returned the submodule.
C21_Witness ==
    /\ op.name = "resolve_module_item_path"
    /\ op.id = 0
    /\ op.arg = << "a" >>
    /\ db.modules[1].module_item_symbols["a"] = None
    /\ db.modules[1].submodules["a"] = Some(1)
    /\ db.modules[1].resolved_imports["a"] = Some(Symbol("Module", 2))
    /\ op.ret = Some(Symbol("Module", 1))

\* The names of the segments of a located path.
Segments(path) == [k \in 1 .. Len(path) |-> path[k].id]

\* The name an import declaration is bound under.
BoundName(import) ==
    IF is_some(import.as) THEN unwrap(import.as).id
    ELSE import.path[Len(import.path)].id

\* C22: an import declaration whose path resolves binds, in the import table
\* of the importing module, the alias if one is given and the last segment of
\* the path otherwise to the symbol the path denotes from the project root;
\* no other name of the table changes and nothing is reported.
C22_BindStep ==
    op'.name = "add_import_hir" =>
        LET import == unwrap(op'.arg)
            denoted == Denoted(db, Segments(import.path))
        IN  is_some(denoted) =>
                /\ resolved_imports(db', op'.id)
                       = [resolved_imports(db, op'.id)
                             EXCEPT ![BoundName(import)] = denoted]
                /\ resolved_imports(db', op'.id)[BoundName(import)]
                       = resolve_module_item_by_absolute_path(db', import.path)
                /\ diagnostics' = diagnostics

C22_Bind == [][C22_BindStep]_vars

\* C22 witness: the root module has resolved `import a.b` and then
\* `import a.b as c`; b and c are bound to the module b, and a is not bound.
C22_Witness ==
    /\ op.name = "add_import_hir"
    /\ Len(collector.hir) = 2
    /\ ImportsOfAB(None) = {1}
    /\ ImportsOfAB(Some("c")) = {2}
    /\ resolved_imports(db, 0)["b"] = Some(Symbol("Module", 2))
    /\ resolved_imports(db, 0)["c"] = Some(Symbol("Module", 2))
    /\ resolved_imports(db, 0)["a"] = None

\* The import declarations read so far whose path denotes nothing.  The tree
\* does not change once the imports are being resolved.
FailedImports ==
    {i \in 1 .. Len(collector.hir) :
        ~is_some(Denoted(db, Segments(collector.hir[i].path)))}

\* C23 (each import and lookup): an import declaration whose path does not
\* resolve appends one PathNotFound diagnostic and leaves the Database, so
\* the import table and every lookup, as it was; a lookup appends nothing.
C23_FailStep ==
    /\ op'.name = "add_import_hir" =>
           LET import == unwrap(op'.arg)
           IN  ~is_some(Denoted(db, Segments(import.path))) =>
                   /\ db' = db
                   /\ Len(diagnostics') = Len(diagnostics) + 1
                   /\ SubSeq(diagnostics', 1, Len(diagnostics)) = diagnostics
                   /\ diagnostics'[Len(diagnostics')].diagnostic = "PathNotFound"
                   /\ resolve_module_item_path(db', op'.id,
                                               Path(<< BoundName(import) >>))
                          = resolve_module_item_path(db, op'.id,
                                                     Path(<< BoundName(import) >>))
    /\ op'.name \in {"resolve_module_item_path",
                     "resolve_module_item_by_absolute_path"} =>
           diagnostics' = diagnostics /\ db' = db

\* C23 (every state): there is one diagnostic for each import declaration
\* that failed and no other, whatever lookups were made; a name that only
\* failed imports were to bind, and that is neither declared nor a submodule,
\* is looked up in vain.
C23_Once ==
    /\ Len(diagnostics) = Cardinality(FailedImports)
    /\ \A n \in Identifiers :
           (/\ \E i \in FailedImports : BoundName(collector.hir[i]) = n
            /\ \A i \in 1 .. Len(collector.hir) :
                   BoundName(collector.hir[i]) = n => i \in FailedImports
            /\ ~is_some(symbol(db, 0, n)))
               => resolve_module_item_path(db, 0, Path(<< n >>)) = None

C23_FailedImport == [][C23_FailStep]_vars /\ []C23_Once

\* C23 witness: `import b.a as c` failed, no package b being registered; the
\* lookup of [c] made afterwards returned nothing and the one diagnostic of
\* the import is still the only one.
C23_Witness ==
    /\ Len(collector.hir) = 1
    /\ FailedImports = {1}
    /\ BoundName(collector.hir[1]) = "c"
    /\ op.name = "resolve_module_item_path"
    /\ op.arg = << "c" >>
    /\ op.ret = None
    /\ Len(diagnostics) = 1
    /\ diagnostics[1].diagnostic = "PathNotFound"
    /\ resolved_imports(db, 0) = EmptyMap

\* C24: resolving an import declaration of the module M leaves every module's
\* declared-item map and submodule map, and the import table of every module
\* other than M, as they were; nothing else of the Database changes either.
C24_FrameStep ==
    (op'.name = "process_imports" /\ unwrap(op'.arg).kind = "Import") =>
        /\ Len(db'.modules) = Len(db.modules)
        /\ \A m \in 0 .. Len(db.modules) - 1 :
               /\ db'.modules[m + 1].module_item_symbols
                      = db.modules[m + 1].module_item_symbols
               /\ db'.modules[m + 1].submodules = db.modules[m + 1].submodules
               /\ m # op'.id =>
                      resolved_imports(db', m) = resolved_imports(db, m)
        /\ db' = [db EXCEPT !.modules[op'.id + 1].resolved_imports =
                                resolved_imports(db', op'.id)]

NotImplemented == << "panic: not yet implemented" >>

\* unreachable!()
Unreachable == << "panic: internal error: entered unreachable code" >>

\* The kinds of module items: enum, struct, tuple-like struct, function,
\* interface and type alias (imports excluded).
ModuleItemKinds ==
    {"Enum", "Struct", "TupleLikeStruct", "Function", "Interface", "TypeAlias"}

\* NameBindingKind::is_module_item
is_module_item(name_binding_kind) == name_binding_kind \in ModuleItemKinds

\* The signature kept for an entity: module items have one, of their kind;
\* modules and enum items have none.
resolve_signature(d, name_binding) ==
    IF name_binding.kind \in ModuleItemKinds
    THEN Some([signature |-> name_binding.kind])
    ELSE None

\* The diagnostic of a type expression whose path names something else.
ExpectedType(file, location, name_binding_kind) ==
    [diagnostic |-> "ExpectedType", filepath |-> file, location |-> location,
     name_binding_kind |-> name_binding_kind]

\* ModuleScope::resolve_path: the lookup of a path from within module, a
\* failure being reported at the segment that was not found.
ModuleScope_resolve_path(st, module, path) ==
    LET found == resolve_module_item_path(st.db, module, path)
        at == resolve_segments(st.db, module, path, 1).at
    IN  IF is_some(found) THEN [st |-> st, ret |-> found]
        ELSE [st |-> [st EXCEPT !.diagnostics =
                         Append(@, PathNotFound(path[at].location[1],
                                                path[at].id,
                                                path[at].location))],
              ret |-> None]

\* ry_hir::Type and ry_hir::TypeConstructor
hir_TypeConstructor(path, arguments, location) ==
    [type |-> "Constructor", path |-> path, arguments |-> arguments,
     location |-> location]

hir_Tuple(element_types) == [type |-> "Tuple", element_types |-> element_types]

hir_Function(parameter_types, return_type) ==
    [type |-> "Function", parameter_types |-> parameter_types,
     return_type |-> return_type]

hir_InterfaceObject(bounds) == [type |-> "InterfaceObject", bounds |-> bounds]

\* ry_thir::ty::TypeConstructor and Type
TypeConstructor(path, arguments) == [path |-> path, arguments |-> arguments]

Type_Constructor(constructor) ==
    [type |-> "Constructor", path |-> constructor.path,
     arguments |-> constructor.arguments]

Type_Tuple(element_types) == [type |-> "Tuple", element_types |-> element_types]

Type_Function(parameter_types, return_type) ==
    [type |-> "Function", parameter_types |-> parameter_types,
     return_type |-> return_type]

Type_InterfaceObject(bounds) == [type |-> "InterfaceObject", bounds |-> bounds]

\* A call that returned a value, and that value is Some.
returned_some(r) == is_ok(r.ret) /\ is_some(value(r.ret))

\* A constructor resolution that looks the path up first and asks the generic
\* scope only for a path that was not found.
resolve_type_constructor_PathFirst(st, ty, generic_parameter_scope, module_scope) ==
    LET name == ty.path[1]
        found == resolve_module_item_path(st.db, module_scope, ty.path)
        bare == Len(ty.path) = 1 /\ ty.arguments = << >>
        generic == IF bare THEN contains(st.db, generic_parameter_scope, name.id)
                   ELSE Ok(FALSE)
        resolved == ModuleScope_resolve_path(st, module_scope, ty.path)
    IN  IF ~is_some(found) /\ ~is_ok(generic) THEN [st |-> st, ret |-> generic]
        ELSE IF ~is_some(found) /\ value(generic)
             THEN [st |-> st,
                   ret |-> Ok(Some(TypeConstructor(<< name.id >>, << >>)))]
        ELSE IF ~is_some(resolved.ret) THEN [st |-> resolved.st, ret |-> Ok(None)]
        ELSE IF ~is_module_item(unwrap(resolved.ret).kind)
             THEN [st |-> [resolved.st EXCEPT !.diagnostics =
                              Append(@, ExpectedType(ty.location[1], ty.location,
                                                     unwrap(resolved.ret).kind))],
                   ret |-> Ok(None)]
        ELSE [st |-> resolved.st, ret |-> NotImplemented]

\* TypeCheckingContext::resolve_type_constructor: the State after the call and
\* the constructor (or nothing) it returns, or the panic it ends in.
resolve_type_constructor(st, ty, generic_parameter_scope, module_scope) ==
    LET possible_generic_parameter_name == ty.path[1]
        bare == Len(ty.path) = 1 /\ ty.arguments = << >>
        generic == IF bare
                   THEN contains(st.db, generic_parameter_scope,
                                 possible_generic_parameter_name.id)
                   ELSE Ok(FALSE)
        resolved == ModuleScope_resolve_path(st, module_scope, ty.path)
    IN  IF ~is_ok(generic) THEN [st |-> st, ret |-> generic]
        ELSE IF value(generic)
             THEN [st |-> st,
                   ret |-> Ok(Some(TypeConstructor(
                               << possible_generic_parameter_name.id >>, << >>)))]
        ELSE IF ~is_some(resolved.ret) THEN [st |-> resolved.st, ret |-> Ok(None)]
        ELSE IF ~is_module_item(unwrap(resolved.ret).kind)
             THEN [st |-> [resolved.st EXCEPT !.diagnostics =
                              Append(@, ExpectedType(ty.location[1], ty.location,
                                                     unwrap(resolved.ret).kind))],
                   ret |-> Ok(None)]
        ELSE [st |-> resolved.st, ret |-> NotImplemented]

\* F(x), with x worked out once and for all before F looks at it: a call is
\* made once, however often what it returned is read.
Once(x, F(_)) == CHOOSE y \in {F(v) : v \in {x}} : TRUE

RECURSIVE resolve_type(_, _, _, _)
RECURSIVE resolve_types(_, _, _, _, _)
RECURSIVE resolve_interface(_, _, _, _)
RECURSIVE resolve_bounds_from(_, _, _, _, _)

\* A collect that resolves every type before it looks for one that yielded
\* nothing.
resolve_types_All(st, types, k, generic_parameter_scope, module_scope) ==
    IF k > Len(types) THEN [st |-> st, ret |-> Ok(Some(<< >>))]
    ELSE Once(resolve_type(st, types[k], generic_parameter_scope, module_scope),
              LAMBDA first :
        IF ~is_ok(first.ret) THEN first
        ELSE Once(resolve_types(first.st, types, k + 1, generic_parameter_scope,
                                module_scope),
                  LAMBDA rest :
            IF ~is_ok(rest.ret) THEN rest
            ELSE IF ~returned_some(first) \/ ~returned_some(rest)
                 THEN [st |-> rest.st, ret |-> Ok(None)]
            ELSE [st |-> rest.st,
                  ret |-> Ok(Some(<< unwrap(value(first.ret)) >>
                                     \o unwrap(value(rest.ret))))]))

\* `.map(|ty| self.resolve_type(ty, ..)).collect::<Option<Vec<_>>>()` over the
\* types from place k on: the types are resolved in order up to the first
\* that yields nothing, which is the answer then.
resolve_types(st, types, k, generic_parameter_scope, module_scope) ==
    IF k > Len(types) THEN [st |-> st, ret |-> Ok(Some(<< >>))]
    ELSE Once(resolve_type(st, types[k], generic_parameter_scope, module_scope),
              LAMBDA first :
        IF ~returned_some(first) THEN first
        ELSE Once(resolve_types(first.st, types, k + 1, generic_parameter_scope,
                                module_scope),
                  LAMBDA rest :
            IF ~returned_some(rest) THEN rest
            ELSE [st |-> rest.st,
                  ret |-> Ok(Some(<< unwrap(value(first.ret)) >>
                                     \o unwrap(value(rest.ret))))]))

\* TypeCheckingContext::resolve_type_arguments
resolve_type_arguments(st, hir, generic_parameter_scope, module_scope) ==
    resolve_types(st, hir, 1, generic_parameter_scope, module_scope)

\* TypeCheckingContext::resolve_interface
resolve_interface(st, interface, generic_parameter_scope, module_scope) ==
    Once(ModuleScope_resolve_path(st, module_scope, interface.path),
         LAMBDA resolved :
        IF ~is_some(resolved.ret) THEN [st |-> resolved.st, ret |-> Ok(None)]
        ELSE LET signature == resolve_signature(resolved.st.db,
                                                unwrap(resolved.ret))
             IN  IF ~is_some(signature)
                 THEN [st |-> resolved.st, ret |-> Ok(None)]
                 ELSE IF unwrap(signature).signature # "Interface"
                      THEN [st |-> resolved.st, ret |-> Unreachable]
                 ELSE Once(resolve_type_arguments(resolved.st, interface.arguments,
                                                  generic_parameter_scope,
                                                  module_scope),
                           LAMBDA arguments :
                     IF ~returned_some(arguments) THEN arguments
                     ELSE [st |-> arguments.st,
                           ret |-> Ok(Some(TypeConstructor(
                                       Segments(interface.path),
                                       unwrap(value(arguments.ret)))))]))

\* `bounds.into_iter().filter_map(|bound| self.resolve_interface(..)).collect()`
\* over the bounds from place k on.
resolve_bounds_from(st, bounds, k, generic_parameter_scope, module_scope) ==
    IF k > Len(bounds) THEN [st |-> st, ret |-> Ok(<< >>)]
    ELSE Once(resolve_interface(st, bounds[k], generic_parameter_scope,
                                module_scope),
              LAMBDA first :
        IF ~is_ok(first.ret) THEN first
        ELSE Once(resolve_bounds_from(first.st, bounds, k + 1,
                                      generic_parameter_scope, module_scope),
                  LAMBDA rest :
            IF ~is_ok(rest.ret) THEN rest
            ELSE [st |-> rest.st,
                  ret |-> Ok((IF is_some(value(first.ret))
                              THEN << unwrap(value(first.ret)) >>
                              ELSE << >>) \o value(rest.ret))]))

\* TypeCheckingContext::resolve_bounds
resolve_bounds(st, generic_parameter_scope, bounds, module_scope) ==
    resolve_bounds_from(st, bounds, 1, generic_parameter_scope, module_scope)

\* A resolve_type that resolves the return type of a function type before
\* its parameter types.
resolve_type_ReturnFirst(st, ty, generic_parameter_scope, module_scope) ==
    CASE ty.type = "Constructor" ->
            Once(resolve_type_constructor(st, ty, generic_parameter_scope,
                                          module_scope),
                 LAMBDA r :
                IF ~returned_some(r) THEN r
                ELSE [st |-> r.st,
                      ret |-> Ok(Some(Type_Constructor(unwrap(value(r.ret)))))])
      [] ty.type = "Tuple" ->
            Once(resolve_types(st, ty.element_types, 1, generic_parameter_scope,
                               module_scope),
                 LAMBDA r :
                IF ~returned_some(r) THEN r
                ELSE [st |-> r.st,
                      ret |-> Ok(Some(Type_Tuple(unwrap(value(r.ret)))))])
      [] ty.type = "Function" ->
            Once(resolve_type(st, ty.return_type, generic_parameter_scope,
                              module_scope),
                 LAMBDA return_ :
                IF ~returned_some(return_) THEN return_
                ELSE Once(resolve_types(return_.st, ty.parameter_types, 1,
                                        generic_parameter_scope, module_scope),
                          LAMBDA parameters_ :
                    IF ~returned_some(parameters_) THEN parameters_
                    ELSE [st |-> parameters_.st,
                          ret |-> Ok(Some(Type_Function(
                                      unwrap(value(parameters_.ret)),
                                      unwrap(value(return_.ret)))))]))
      [] ty.type = "InterfaceObject" ->
            Once(resolve_bounds(st, generic_parameter_scope, ty.bounds,
                                module_scope),
                 LAMBDA r :
                IF ~is_ok(r.ret) THEN r
                ELSE IF value(r.ret) = << >> THEN [st |-> r.st, ret |-> Ok(None)]
                ELSE [st |-> r.st,
                      ret |-> Ok(Some(Type_InterfaceObject(value(r.ret))))])

\* TypeCheckingContext::resolve_type: the State after the call and the Type
\* (or nothing) it returns, or the panic it ends in.
resolve_type(st, ty, generic_parameter_scope, module_scope) ==
    CASE ty.type = "Constructor" ->
            Once(resolve_type_constructor(st, ty, generic_parameter_scope,
                                          module_scope),
                 LAMBDA r :
                IF ~returned_some(r) THEN r
                ELSE [st |-> r.st,
                      ret |-> Ok(Some(Type_Constructor(unwrap(value(r.ret)))))])
      [] ty.type = "Tuple" ->
            Once(resolve_types(st, ty.element_types, 1, generic_parameter_scope,
                               module_scope),
                 LAMBDA r :
                IF ~returned_some(r) THEN r
                ELSE [st |-> r.st,
                      ret |-> Ok(Some(Type_Tuple(unwrap(value(r.ret)))))])
      [] ty.type = "Function" ->
            Once(resolve_types(st, ty.parameter_types, 1, generic_parameter_scope,
                               module_scope),
                 LAMBDA parameters_ :
                IF ~returned_some(parameters_) THEN parameters_
                ELSE Once(resolve_type(parameters_.st, ty.return_type,
                                       generic_parameter_scope, module_scope),
                          LAMBDA return_ :
                    IF ~returned_some(return_) THEN return_
                    ELSE [st |-> return_.st,
                          ret |-> Ok(Some(Type_Function(
                                      unwrap(value(parameters_.ret)),
                                      unwrap(value(return_.ret)))))]))
      [] ty.type = "InterfaceObject" ->
            Once(resolve_bounds(st, generic_parameter_scope, ty.bounds,
                                module_scope),
                 LAMBDA r :
                IF ~is_ok(r.ret) THEN r
                ELSE IF value(r.ret) = << >> THEN [st |-> r.st, ret |-> Ok(None)]
                ELSE [st |-> r.st,
                      ret |-> Ok(Some(Type_InterfaceObject(value(r.ret))))])

\* An implements that takes an interface object to implement its bounds.
implements_OwnBounds(ty, interface) ==
    CASE ty.type = "Constructor" -> NotImplemented
      [] ty.type = "InterfaceObject" ->
            Ok(\E k \in 1 .. Len(ty.bounds) : ty.bounds[k] = interface)
      [] OTHER -> Ok(FALSE)

\* TypeCheckingContext::implements: false for every type that is not a
\* Constructor; the Constructor arm ends in todo!().
implements(ty, interface) ==
    CASE ty.type = "Constructor" -> NotImplemented
      [] OTHER -> Ok(FALSE)

(***************************************************************************)
(* Specification of type resolution: the root module of a package is given *)
(* items and a submodule, two nested generic parameter scopes are given    *)
(* parameters, and type expressions are then resolved in the root module.  *)
(***************************************************************************)
\* Type expressions resolved in one run.
MaxRequests == 1

\* The Database types are resolved in: the module "a", root of the package
\* "a", the module "b", a generic parameter, and a generic parameter scope
\* with a scope nested in it.
TypesDatabase ==
    LET d1 == add_(Database_new, "module", ModuleData_new("a")).db
        d2 == add_(d1, "module", ModuleData_new("b")).db
        d3 == value(add_package(d2, 0))
        d4 == add_(d3, "generic_parameter",
                   GenericParameterData_new(Location(1, 1, 1), None)).db
        d5 == add_(d4, "generic_parameter_scope",
                   GenericParameterScopeData_new(None)).db
    IN  add_(d5, "generic_parameter_scope",
             GenericParameterScopeData_new(Some(0))).db

\* The kinds of the items the root module is given.
TypeItemKinds == {"Interface", "Struct", "Function"}

\* The type `n`, written at place i of the file of the root module.
Named(n, i) ==
    hir_TypeConstructor(<< IdentifierAST(n, Location(1, i, 1)) >>, << >>,
                        Location(1, i, 0))

\* The type expressions asked for: bare names, a name with a type argument,
\* tuples, function types of one and two parameters and interface objects of
\* one to three bounds.
HirTypes ==
    {Named(n, 1) : n \in Identifiers}
    \cup {hir_TypeConstructor(<< IdentifierAST("a", Location(1, 1, 1)) >>,
                              << Named("b", 2) >>, Location(1, 1, 0))}
    \cup {hir_Tuple(<< Named(e[1], 1), Named(e[2], 2) >>) :
             e \in {<< "a", "a" >>, << "a", "b" >>, << "b", "a" >>}}
    \cup {hir_Function(<< Named(e[1], 1) >>, Named(e[2], 2)) :
             e \in {<< "a", "a" >>, << "a", "b" >>, << "b", "a" >>}}
    \cup {hir_Function(<< Named(e[1], 1), Named(e[2], 2) >>, Named("a", 3)) :
             e \in {<< "a", "b" >>, << "b", "a" >>}}
    \cup {hir_InterfaceObject([k \in 1 .. Len(b) |-> Named(b[k], k)]) :
             b \in {<< "a" >>, << "b" >>, << "c" >>, << "a", "b" >>,
                    << "b", "a" >>, << "a", "b", "c" >>}}

InitTypes ==
    /\ db = TypesDatabase
    /\ diagnostics = << >>
    /\ op = NoOp
    /\ returned = [what \in Whats |->
                      [i \in 1 .. Len(TypesDatabase[whats(what)]) |-> i - 1]]
    /\ collector = [cursor |-> 0, hir |-> << >>, requests |-> 0]

\* No type has been asked for yet: the module is still being built.
Building == collector.requests = 0

\* CollectDefinitions::run defines an item of the root module.
DeclareItem(kind, id) ==
    /\ Building
    /\ ~is_some(module_item_symbol(db, 0, id))
    /\ LET item == ModuleItem(0, Len(collector.hir) + 1, kind, id, << >>)
           st == run([db |-> db, diagnostics |-> diagnostics], 0, item)
       IN  /\ db' = st.db
           /\ diagnostics' = st.diagnostics
           /\ collector' = [collector EXCEPT !.hir = Append(@, item)]
           /\ op' = [name |-> "run", what |-> "module", id |-> 0,
                     arg |-> Some(item), ret |-> Ok(None)]
    /\ UNCHANGED returned

\* The module "b" becomes a submodule of the root module.
DeclareSubmodule ==
    /\ Building
    /\ ~is_some(submodule(db, 0, "b"))
    /\ db' = value(add_submodule(db, 0, 1))
    /\ op' = [name |-> "add_submodule", what |-> "module", id |-> 0,
              arg |-> << 1 >>, ret |-> Ok(None)]
    /\ UNCHANGED <<diagnostics, returned, collector>>

\* A generic parameter is declared in a scope.
DeclareParameter(scope, parameter_name) ==
    /\ Building
    /\ ~is_some(parameters(db, scope)[parameter_name])
    /\ db' = value(add_generic_parameter(db, scope, parameter_name, 0))
    /\ op' = [name |-> "add_generic_parameter",
              what |-> "generic_parameter_scope", id |-> scope,
              arg |-> << parameter_name, 0 >>, ret |-> Ok(None)]
    /\ UNCHANGED <<diagnostics, returned, collector>>

\* resolve_type(ty, scope, module scope of the root module)
ResolveType(ty, scope) ==
    /\ collector.requests < MaxRequests
    /\ \E r \in {resolve_type([db |-> db, diagnostics |-> diagnostics], ty,
                              scope, 0)} :
           /\ db' = r.st.db
           /\ diagnostics' = r.st.diagnostics
           /\ op' = [name |-> "resolve_type", what |-> "generic_parameter_scope",
                     id |-> scope, arg |-> ty, ret |-> r.ret]
    /\ collector' = [collector EXCEPT !.requests = @ + 1]
    /\ UNCHANGED returned

\* The semantic types and the interface constructors implements is asked
\* about: a type of every variant, and an interface without and with a type
\* argument.
SemanticTypes ==
    LET a == Type_Constructor(TypeConstructor(<< "a" >>, << >>))
    IN  {a, Type_Tuple(<< >>), Type_Tuple(<< a, a >>), Type_Function(<< a >>, a),
         Type_InterfaceObject(<< TypeConstructor(<< "a" >>, << >>) >>),
         Type_Unknown}

InterfaceConstructors ==
    {TypeConstructor(<< "a" >>, << >>),
     TypeConstructor(<< "b" >>,
                     << Type_Constructor(TypeConstructor(<< "a" >>, << >>)) >>)}

\* implements(ty, interface)
Implements(ty, interface) ==
    /\ collector.requests < MaxRequests
    /\ op' = [name |-> "implements", what |-> "module", id |-> 0,
              arg |-> << ty, interface >>, ret |-> implements(ty, interface)]
    /\ collector' = [collector EXCEPT !.requests = @ + 1]
    /\ UNCHANGED <<db, diagnostics, returned>>

\* The interfaces asked for: bare names and a name with a type argument.
HirInterfaces ==
    {Named(n, 1) : n \in Identifiers}
    \cup {hir_TypeConstructor(<< IdentifierAST("a", Location(1, 1, 1)) >>,
                              << Named(n, 2) >>, Location(1, 1, 0)) :
             n \in {"b", "c"}}

\* resolve_interface(interface, scope, module scope of the root module)
ResolveInterface(interface, scope) ==
    /\ collector.requests < MaxRequests
    /\ \E r \in {resolve_interface([db |-> db, diagnostics |-> diagnostics],
                                   interface, scope, 0)} :
           /\ db' = r.st.db
           /\ diagnostics' = r.st.diagnostics
           /\ op' = [name |-> "resolve_interface",
                     what |-> "generic_parameter_scope",
                     id |-> scope, arg |-> interface, ret |-> r.ret]
    /\ collector' = [collector EXCEPT !.requests = @ + 1]
    /\ UNCHANGED returned

NextTypes ==
    \/ \E kind \in TypeItemKinds : \E id \in Names : DeclareItem(kind, id)
    \/ DeclareSubmodule
    \/ \E scope \in {0, 1} : \E n \in ParameterNames : DeclareParameter(scope, n)
    \/ DeclareParameter(0, "b")
    \/ \E ty \in HirTypes : \E scope \in {0, 1} : ResolveType(ty, scope)
    \/ \E interface \in HirInterfaces : \E scope \in {0, 1} :
          ResolveInterface(interface, scope)
    \/ \E ty \in SemanticTypes : \E interface \in InterfaceConstructors :
          Implements(ty, interface)

SpecTypes == InitTypes /\ [][NextTypes]_vars

(***************************************************************************)
(* Claims about type resolution.                                           *)
(***************************************************************************)
\* The request is for a bare name without type arguments.
Bare(ty) == ty.type = "Constructor" /\ Len(ty.path) = 1 /\ ty.arguments = << >>

\* The name is declared in the scope s or in a scope around it.
Captured(d, s, n) == \E k \in 0 .. Len(d.generic_parameter_scopes) :
    /\ Ancestor(d, s, k) # None
    /\ is_some(parameters(d, unwrap(Ancestor(d, s, k)))[n])

\* C25: a bare type name without type arguments that is declared in the
\* active generic scope or in a scope around it resolves to the generic
\* parameter type of that name; no diagnostic is appended, whatever the module
\* binds the name to.
C25_GenericStep ==
    (/\ op'.name = "resolve_type"
     /\ Bare(op'.arg)
     /\ Captured(db, op'.id, op'.arg.path[1].id))
        => /\ op'.ret = Ok(Some(Type_Constructor(
                              TypeConstructor(<< op'.arg.path[1].id >>, << >>))))
           /\ diagnostics' = diagnostics
           /\ db' = db

C25_GenericFirst == [][C25_GenericStep]_vars

\* C25 witness: the root module declares a function a, the outer scope
\* declares the parameter a; the type a asked for in the inner scope is the
\* generic parameter and nothing was reported.
C25_Witness ==
    /\ op.name = "resolve_type"
    /\ op.id = 1
    /\ op.arg = Named("a", 1)
    /\ module_item_symbol(db, 0, "a") = Some(Symbol("Function", 0))
    /\ is_some(parameters(db, 0)["a"])
    /\ ~is_some(parameters(db, 1)["a"])
    /\ op.ret = Ok(Some(Type_Constructor(TypeConstructor(<< "a" >>, << >>))))
    /\ diagnostics = << >>

\* The symbol a bare name denotes in the root module, if any.
Named_symbol(d, n) == resolve_module_item_path(d, 0, Path(<< n >>))

\* The bounds of an interface object that name an interface, in the order
\* they are written, as resolved constructors.
RECURSIVE InterfaceBounds(_, _, _)
InterfaceBounds(d, bounds, k) ==
    IF k > Len(bounds) THEN << >>
    ELSE LET sym == Named_symbol(d, bounds[k].path[1].id)
         IN  (IF is_some(sym) /\ unwrap(sym).kind = "Interface"
              THEN << TypeConstructor(Segments(bounds[k].path), << >>) >>
              ELSE << >>) \o InterfaceBounds(d, bounds, k + 1)

\* C26: resolving an interface object returns the interface object of the
\* bounds that name an interface, in the order they are written, the other
\* bounds being dropped, and returns nothing when no bound is left.
C26_FilterStep ==
    (op'.name = "resolve_type" /\ op'.arg.type = "InterfaceObject") =>
        LET kept == InterfaceBounds(db, op'.arg.bounds, 1)
        IN  op'.ret = IF kept = << >> THEN Ok(None)
                      ELSE Ok(Some(Type_InterfaceObject(kept)))

C26_BoundsFiltered == [][C26_FilterStep]_vars

\* C26, where the code does that: no bound names a module item that is not
\* an interface.  A bound that is not found or names a module is dropped.
C26_DroppedStep ==
    (/\ op'.name = "resolve_type"
     /\ op'.arg.type = "InterfaceObject"
     /\ \A k \in 1 .. Len(op'.arg.bounds) :
           LET sym == Named_symbol(db, op'.arg.bounds[k].path[1].id)
           IN  is_some(sym) => unwrap(sym).kind \in {"Interface", "Module"})
        => LET kept == InterfaceBounds(db, op'.arg.bounds, 1)
           IN  op'.ret = IF kept = << >> THEN Ok(None)
                         ELSE Ok(Some(Type_InterfaceObject(kept)))

C26_Dropped == [][C26_DroppedStep]_vars

\* C26 witness: of the bounds a, b and c the first names an interface, the
\* second the submodule b and the third nothing; the interface object has the
\* one bound a.
C26_Witness ==
    /\ op.name = "resolve_type"
    /\ op.arg.type = "InterfaceObject"
    /\ Len(op.arg.bounds) = 3
    /\ Named_symbol(db, "a") = Some(Symbol("Interface", 0))
    /\ Named_symbol(db, "b") = Some(Symbol("Module", 1))
    /\ Named_symbol(db, "c") = None
    /\ op.ret = Ok(Some(Type_InterfaceObject(
                    << TypeConstructor(<< "a" >>, << >>) >>)))

\* C26, the state that refutes it: the bound a names an interface and the
\* bound b a struct, and the resolution of the interface object has ended in
\* the panic of resolve_interface.
C26_Panics ==
    /\ op.name = "resolve_type"
    /\ op.arg.type = "InterfaceObject"
    /\ Len(op.arg.bounds) = 2
    /\ Named_symbol(db, "a") = Some(Symbol("Interface", 0))
    /\ Named_symbol(db, "b") = Some(Symbol("Struct", 0))
    /\ op.ret = Unreachable

\* The request is for a type path the generic scope does not capture.
PathRequest(d, ty, s) ==
    /\ ty.type = "Constructor"
    /\ ~(Bare(ty) /\ Captured(d, s, ty.path[1].id))

\* What a type path of the root module denotes, if anything.
TypePath_symbol(d, ty) == resolve_module_item_path(d, 0, ty.path)

\* C27: a type path the generic scope does not capture that denotes a symbol
\* that is not a type (a function, a module) appends one ExpectedType
\* diagnostic with the location of the type expression and the kind of the
\* symbol, and resolves to nothing.
C27_ExpectedStep ==
    (/\ op'.name = "resolve_type"
     /\ PathRequest(db, op'.arg, op'.id)
     /\ is_some(TypePath_symbol(db, op'.arg))
     /\ unwrap(TypePath_symbol(db, op'.arg)).kind \in {"Function", "Module"})
        => /\ diagnostics' =
                 Append(diagnostics,
                        ExpectedType(op'.arg.location[1], op'.arg.location,
                                     unwrap(TypePath_symbol(db, op'.arg)).kind))
           /\ op'.ret = Ok(None)

C27_ExpectedType == [][C27_ExpectedStep]_vars

\* C27, where the code does that: the path denotes a module.
C27_ModuleStep ==
    (/\ op'.name = "resolve_type"
     /\ PathRequest(db, op'.arg, op'.id)
     /\ is_some(TypePath_symbol(db, op'.arg))
     /\ unwrap(TypePath_symbol(db, op'.arg)).kind = "Module")
        => /\ diagnostics' =
                 Append(diagnostics,
                        ExpectedType(op'.arg.location[1], op'.arg.location,
                                     "Module"))
           /\ op'.ret = Ok(None)

C27_ExpectedTypeOfModule == [][C27_ModuleStep]_vars

\* C27 witness: the type b names the submodule b; one ExpectedType diagnostic
\* was appended at the type expression and nothing was returned.
C27_Witness ==
    /\ op.name = "resolve_type"
    /\ op.arg = Named("b", 1)
    /\ TypePath_symbol(db, op.arg) = Some(Symbol("Module", 1))
    /\ diagnostics = << ExpectedType(1, Location(1, 1, 0), "Module") >>
    /\ op.ret = Ok(None)

\* C27, the state that refutes it: the type a names the function a and no
\* generic parameter; there is no diagnostic and the resolution has ended in
\* the todo!() of resolve_type_constructor.
C27_Panics ==
    /\ op.name = "resolve_type"
    /\ op.arg = Named("a", 1)
    /\ ~Captured(db, op.id, "a")
    /\ TypePath_symbol(db, op.arg) = Some(Symbol("Function", 0))
    /\ diagnostics = << >>
    /\ op.ret = NotImplemented

(***************************************************************************)
(* The underlying type of a type alias.  The alias is allocated by the     *)
(* collector; the memoized resolution of its type is written from the      *)
(* description of the lifecycle of the Database.                           *)
(***************************************************************************)
\* Type aliases of the module.
MaxAliases == 2

\* Requests for the underlying type of an alias.
MaxAliasRequests == 3

\* What resolving the type expression of an alias may come to.
ResolvedTypes ==
    {Type_Tuple(<< >>), Type_Constructor(TypeConstructor(<< "a" >>, << >>))}

\* The request for the underlying type of alias, `resolved` being what its
\* type expression resolves to when it is resolved now: the Database after
\* the request, the type returned and whether a resolution was performed.
resolve_type_alias(d, alias, resolved) ==
    LET cached == d.type_aliases[alias + 1].ty
    IN  IF cached # Type_Unknown
        THEN [db |-> d, ret |-> cached, performed |-> FALSE]
        ELSE [db |-> [d EXCEPT !.type_aliases[alias + 1].ty = resolved],
              ret |-> resolved, performed |-> TRUE]

InitAlias ==
    /\ db = CollectDatabase
    /\ diagnostics = << >>
    /\ op = NoOp
    /\ returned = [what \in Whats |->
                      [i \in 1 .. Len(CollectDatabase[whats(what)]) |-> i - 1]]
    /\ collector = [cursor |-> 0, hir |-> << >>, requests |-> 0,
                    resolutions |-> << >>]

\* CollectDefinitions::run defines a type alias of the root module.
DefineAlias(id) ==
    /\ Len(db.type_aliases) < MaxAliases
    /\ LET item == ModuleItem(0, Len(collector.hir) + 1, "TypeAlias", id, << >>)
           st == run([db |-> db, diagnostics |-> diagnostics], 0, item)
       IN  /\ db' = st.db
           /\ diagnostics' = st.diagnostics
           /\ collector' = [collector EXCEPT !.hir = Append(@, item),
                                             !.resolutions = Append(@, 0)]
           /\ op' = [name |-> "run", what |-> "module", id |-> 0,
                     arg |-> Some(item), ret |-> Ok(None)]
    /\ UNCHANGED returned

\* The underlying type of an allocated alias is asked for.
ResolveAlias(alias, resolved) ==
    /\ collector.requests < MaxAliasRequests
    /\ LET r == resolve_type_alias(db, alias, resolved)
       IN  /\ db' = r.db
           /\ op' = [name |-> "resolve_type_alias", what |-> "type_alias",
                     id |-> alias, arg |-> Some(resolved), ret |-> r.ret]
           /\ collector' = [collector EXCEPT
                               !.requests = @ + 1,
                               !.resolutions[alias + 1] =
                                   IF r.performed THEN @ + 1 ELSE @]
    /\ UNCHANGED <<diagnostics, returned>>

NextAlias ==
    \/ \E id \in Names : DefineAlias(id)
    \/ \E alias \in 0 .. Len(db.type_aliases) - 1 :
          \E resolved \in ResolvedTypes : ResolveAlias(alias, resolved)

SpecAlias == InitAlias /\ [][NextAlias]_vars

\* C28 (each step): the alias a step allocates has the underlying type
\* Unknown; a request for the type of an alias that is Unknown resolves it,
\* stores what it returns and counts one resolution; a request for the type of
\* a resolved alias returns the stored type, performs no resolution and leaves
\* the Database as it was; the types of the other aliases never change.
C28_AliasStep ==
    /\ \A alias \in 0 .. Len(db.type_aliases) - 1 :
          \/ db'.type_aliases[alias + 1].ty = db.type_aliases[alias + 1].ty
          \/ /\ db.type_aliases[alias + 1].ty = Type_Unknown
             /\ op'.name = "resolve_type_alias"
             /\ op'.id = alias
    /\ \A alias \in Len(db.type_aliases) .. Len(db'.type_aliases) - 1 :
          db'.type_aliases[alias + 1].ty = Type_Unknown
    /\ op'.name = "resolve_type_alias" =>
          LET before == db.type_aliases[op'.id + 1].ty
              after == db'.type_aliases[op'.id + 1].ty
          IN  /\ op'.ret = after
              /\ after # Type_Unknown
              /\ before # Type_Unknown =>
                    /\ after = before
                    /\ db' = db
                    /\ collector'.resolutions = collector.resolutions
              /\ before = Type_Unknown =>
                    collector'.resolutions[op'.id + 1] = 1

\* C28 (every state): no alias has been resolved more than once, and an alias
\* is Unknown exactly as long as it has not been resolved.
C28_AtMostOnce ==
    \A alias \in 0 .. Len(db.type_aliases) - 1 :
        /\ collector.resolutions[alias + 1] <= 1
        /\ collector.resolutions[alias + 1] = 0
              <=> db.type_aliases[alias + 1].ty = Type_Unknown

RECURSIVE ItemsOfKind(_, _, _)
ItemsOfKind(items, kind, k) ==
    IF k = 0 THEN 0
    ELSE ItemsOfKind(items, kind, k - 1) + (IF items[k].kind = kind THEN 1 ELSE 0)

\* Number of the enum items the enums among items[1..k] declare.
RECURSIVE EnumItemsOf(_, _)
EnumItemsOf(items, k) ==
    IF k = 0 THEN 0
    ELSE EnumItemsOf(items, k - 1)
         + (IF items[k].kind = "Enum" THEN Len(items[k].items) ELSE 0)

\* The arenas the collector allocates in.
CollectedWhats == {SymbolWhat[kind] : kind \in DefinedKinds} \cup {"enum_item"}

\* C29 (each item): defining an item of the module M allocates one entity in
\* the arena of its kind, named as the item and owned by M, and for an enum
\* one enum item, owned by M, for each item the enum declares, duplicates
\* included; nothing else is allocated, and an import allocates nothing.
C29_RunStep ==
    op'.name = "run" =>
        LET item == unwrap(op'.arg)
            module == op'.id
            own == IF item.kind \in DefinedKinds
                   THEN SymbolWhat[SymbolKind[item.kind]] ELSE ""
            enum_items == IF item.kind = "Enum" THEN Len(item.items) ELSE 0
        IN  /\ \A what \in CollectedWhats :
                  /\ Len(db'[whats(what)])
                        = Len(db[whats(what)])
                          + (IF what = own THEN 1 ELSE 0)
                          + (IF what = "enum_item" THEN enum_items ELSE 0)
                  /\ \A i \in Len(db[whats(what)]) + 1 .. Len(db'[whats(what)]) :
                        db'[whats(what)][i].module = module
            /\ own # "" =>
                  db'[whats(own)][Len(db'[whats(own)])].name = item.name
            /\ \A k \in 1 .. enum_items :
                  db'.enum_items[Len(db.enum_items) + k].name = item.items[k]
            /\ TotalEntities(db') = TotalEntities(db)
                                    + (IF own = "" THEN 0 ELSE 1) + enum_items

\* C29 (every state): whatever was reported, there are as many entities of
\* each kind as the modules have declared items of that kind so far, and as
\* many enum items as their enums declare; each is owned by a lowered module.
C29_Count ==
    /\ \A kind \in DefinedKinds :
          Len(db[whats(SymbolWhat[kind])])
              = ItemsOfKind(collector.hir[0], kind, Len(collector.hir[0]))
                + ItemsOfKind(collector.hir[1], kind, Len(collector.hir[1]))
    /\ Len(db.enum_items)
          = EnumItemsOf(collector.hir[0], Len(collector.hir[0]))
            + EnumItemsOf(collector.hir[1], Len(collector.hir[1]))
    /\ \A what \in CollectedWhats : \A i \in 1 .. Len(db[whats(what)]) :
          db[whats(what)][i].module \in LoweredModules

C29_OnePerItem == [][C29_RunStep]_vars /\ []C29_Count

\* C29 witness: the first module declared a function twice, which was
\* reported, and the second module was collected after that: there are three
\* functions, the third owned by the second module.
C29_Witness ==
    /\ op.name = "run"
    /\ op.id = 1
    /\ Len(collector.hir[0]) = 2
    /\ Len(collector.hir[1]) = 1
    /\ Cardinality(ItemDuplicates(diagnostics)) = 1
    /\ Len(db.functions) = 3
    /\ db.functions[1].module = 0
    /\ db.functions[2].module = 0
    /\ db.functions[2].name.id = db.functions[1].name.id
    /\ db.functions[3].module = 1

\* The diagnostics a step has appended.
Appended == SubSeq(diagnostics', Len(diagnostics) + 1, Len(diagnostics'))

\* C30: collecting an enum appends the EnumItemDefinedMultipleTimes
\* diagnostics of its items before the ItemDefinedMultipleTimes diagnostic of
\* the enum itself, of which there is at most one and which comes last; the
\* enum the module binds afterwards is a new one whose item map holds, for
\* each item name, an enum item allocated in this step under that name.
C30_EnumStep ==
    (op'.name = "run" /\ unwrap(op'.arg).kind = "Enum") =>
        LET enum_ == unwrap(op'.arg)
            module == op'.id
            new == Appended
            names == {enum_.items[k].id : k \in 1 .. Len(enum_.items)}
            bound == module_item_symbol(db', module, enum_.name.id)
            data == db'.enums[Len(db'.enums)]
        IN  /\ \A i \in 1 .. Len(new) :
                  new[i].diagnostic = "ItemDefinedMultipleTimes" => i = Len(new)
            /\ \A i \in 1 .. Len(new) :
                  new[i].diagnostic \in {"ItemDefinedMultipleTimes",
                                          "EnumItemDefinedMultipleTimes"}
            /\ Cardinality({i \in 1 .. Len(new) :
                               new[i].diagnostic = "EnumItemDefinedMultipleTimes"})
                  = Len(enum_.items) - Cardinality(names)
            /\ (Len(new) > 0 /\ new[Len(new)].diagnostic = "ItemDefinedMultipleTimes")
                  <=> is_some(module_item_symbol(db, module, enum_.name.id))
            /\ bound = Some(Symbol("Enum", Len(db.enums)))
            /\ Len(db'.enums) = Len(db.enums) + 1
            /\ \A n \in Identifiers :
                  IF n \in names
                  THEN /\ is_some(data.items[n])
                       /\ unwrap(data.items[n]) \in
                             Len(db.enum_items) .. Len(db'.enum_items) - 1
                       /\ db'.enum_items[unwrap(data.items[n]) + 1].name.id = n
                  ELSE data.items[n] = None

C30_ItemsFirst == [][C30_EnumStep]_vars

\* C30 witness: an enum a with the items a, a is collected in a module that
\* has bound the name a already: the diagnostic of the second item stands
\* before the diagnostic of the enum.
C30_Witness ==
    /\ op.name = "run"
    /\ unwrap(op.arg).kind = "Enum"
    /\ Len(diagnostics) = 2
    /\ diagnostics[1].diagnostic = "EnumItemDefinedMultipleTimes"
    /\ diagnostics[2].diagnostic = "ItemDefinedMultipleTimes"
    /\ diagnostics[2].name = unwrap(op.arg).name.id
    /\ Len(db.enum_items) = 2

\* The places of the items of an enum whose name an earlier item of the same
\* enum has.
RepeatedItems(items) ==
    {k \in 1 .. Len(items) : \E j \in 1 .. k - 1 : items[j].id = items[k].id}

\* The place of the last item named n before place k (k = Len + 1: of all).
LastItem(items, n, k) ==
    CHOOSE j \in 1 .. k - 1 :
        /\ items[j].id = n
        /\ \A i \in j + 1 .. k - 1 : items[i].id # n

\* The EnumItemDefinedMultipleTimes diagnostics among diags, in order.
EnumItemDuplicates(diags) ==
    SelectSeq(diags, LAMBDA d : d.diagnostic = "EnumItemDefinedMultipleTimes")

\* The diagnostics the repeated items at the places from k on are due.
RECURSIVE ExpectedItemDuplicates(_, _, _)
ExpectedItemDuplicates(enum_, module, k) ==
    IF k > Len(enum_.items) THEN << >>
    ELSE (IF k \in RepeatedItems(enum_.items)
          THEN << EnumItemDefinedMultipleTimes(
                      filepath(module), enum_.name.id, enum_.items[k].id,
                      enum_.items[LastItem(enum_.items, enum_.items[k].id, k)]
                          .location,
                      enum_.items[k].location) >>
          ELSE << >>) \o ExpectedItemDuplicates(enum_, module, k + 1)

\* C31: collecting an enum appends one EnumItemDefinedMultipleTimes
\* diagnostic for each item whose name an earlier item of the same enum has,
\* naming the enum, the item, the occurrence before it and its own place, and
\* no other, whatever other enums and the module declare; the item map of the
\* enum binds each of its item names to the enum item allocated for the last
\* item of that name, and no other name.
C31_EnumItemsStep ==
    (op'.name = "run" /\ unwrap(op'.arg).kind = "Enum") =>
        LET enum_ == unwrap(op'.arg)
            data == db'.enums[Len(db'.enums)]
        IN  /\ EnumItemDuplicates(Appended)
                  = ExpectedItemDuplicates(enum_, op'.id, 1)
            /\ \A n \in Identifiers :
                  IF \E k \in 1 .. Len(enum_.items) : enum_.items[k].id = n
                  THEN data.items[n] =
                          Some(Len(db.enum_items)
                               + LastItem(enum_.items, n, Len(enum_.items) + 1) - 1)
                  ELSE data.items[n] = None

C31_EnumItems == [][C31_EnumItemsStep]_vars

\* C31 witness: the module has collected a function a and the enum a with
\* the items a, b, without an enum item diagnostic, and now the enum b with
\* the items a, a: one diagnostic, and a is bound to the fourth enum item.
C31_Witness ==
    /\ op.name = "run"
    /\ unwrap(op.arg).kind = "Enum"
    /\ Len(collector.hir[0]) = 3
    /\ collector.hir[0][1].kind = "Function"
    /\ collector.hir[0][1].name.id = "a"
    /\ collector.hir[0][2].kind = "Enum"
    /\ Len(EnumItemDuplicates(diagnostics)) = 1
    /\ Len(db.enum_items) = 4
    /\ db.enums[2].items["a"] = Some(3)
    /\ db.enums[1].items["a"] = Some(0)
    /\ db.enums[1].items["b"] = Some(1)

\* C32: collecting an item of module M leaves every record allocated before
\* as it was (the arenas only grow at the end, the module arena not at all),
\* the package registry, the item maps of the other modules and the submodule
\* map, the resolved imports and the name of every module, M included: it
\* writes new entity slots and the item map of M only.
C32_FrameStep ==
    op'.name = "run" =>
        /\ db'.packages = db.packages
        /\ \A what \in Whats :
              /\ Len(db'[whats(what)]) >= Len(db[whats(what)])
              /\ what # "module" =>
                    SubSeq(db'[whats(what)], 1, Len(db[whats(what)]))
                        = db[whats(what)]
        /\ Len(db'.modules) = Len(db.modules)
        /\ \A m \in 1 .. Len(db.modules) :
              /\ db'.modules[m].submodules = db.modules[m].submodules
              /\ db'.modules[m].resolved_imports = db.modules[m].resolved_imports
              /\ db'.modules[m].name = db.modules[m].name
              /\ m # op'.id + 1 =>
                    db'.modules[m].module_item_symbols
                        = db.modules[m].module_item_symbols

C32_WritesOwnModuleOnly == [][C32_FrameStep]_vars

\* C32 witness: the second module is collected after the first has bound a
\* name: an entity was allocated and bound in the second module's item map,
\* which now differs from the untouched one of the first.
C32_Witness ==
    /\ op.name = "run"
    /\ op.id = 1
    /\ unwrap(op.arg).kind = "Struct"
    /\ Len(db.structs) = 1
    /\ Len(db.functions) = 1
    /\ module_item_symbol(db, 0, "a") = Some(Symbol("Function", 0))
    /\ module_item_symbol(db, 1, "a") = Some(Symbol("Struct", 0))
    /\ is_some(submodule(db, 0, "b"))

(***************************************************************************)
(* Specification of concurrent collection: one worker per lowered module,  *)
(* all on one Database and one diagnostics store.  A worker runs the calls *)
(* of define_function and define_enum in their order; each arena append,   *)
(* each duplicate check and each item map insertion is one synchronized    *)
(* step, and the steps of the two workers interleave freely.  The workers   *)
(* are given functions, which allocate before they check the name, and an  *)
(* enum with a repeated item, which checks after it walked its items.      *)
(***************************************************************************)
\* Module items the workers collect in total.
MaxWorkerItems == 3

\* A worker between two items.
Idle == [todo |-> << >>]

InitWorkers ==
    /\ db = CollectDatabase
    /\ diagnostics = << >>
    /\ op = NoOp
    /\ returned = [what \in Whats |->
                      [i \in 1 .. Len(CollectDatabase[whats(what)]) |-> i - 1]]
    /\ collector = [hir |-> [m \in LoweredModules |-> << >>],
                    pc |-> [m \in LoweredModules |-> Idle]]

\* The for_each of run: the worker of `module` reads its next item; the calls
\* of its define_* are still to be made.
Begin(module, kind, id, enum_items) ==
    /\ collector.pc[module] = Idle
    /\ ItemsRead(collector.hir, 0) < MaxWorkerItems
    /\ LET item == ModuleItem(module, Len(collector.hir[module]) + 1, kind, id,
                              enum_items)
       IN  /\ collector' =
                [hir |-> [collector.hir EXCEPT ![module] = Append(@, item)],
                 pc |-> [collector.pc EXCEPT ![module] =
                           [todo |-> IF kind = "Enum"
                                     THEN << "items", "check", "add", "insert" >>
                                     ELSE << "add", "check", "insert" >>,
                            item |-> item, k |-> 1, id |-> 0,
                            enum_data |-> EnumData_new(item.name, module)]]]
           /\ op' = [name |-> "run", what |-> "module", id |-> module,
                     arg |-> Some(item), ret |-> Ok(None)]
    /\ UNCHANGED <<db, diagnostics, returned>>

\* One iteration of the item loop of define_enum: the item is checked against
\* the EnumData under construction and allocated.
EnumItemStep(module) ==
    LET pc == collector.pc[module] IN
    /\ pc # Idle
    /\ Head(pc.todo) = "items"
    /\ LET walked == define_enum_items([db |-> db, diagnostics |-> diagnostics],
                                       module, pc.enum_data,
                                       << pc.item.items[pc.k] >>, 1)
           id == Len(walked.st.db.enum_items) - 1
       IN  /\ db' = walked.st.db
           /\ diagnostics' = walked.st.diagnostics
           /\ returned' = [returned EXCEPT !["enum_item"] = Append(@, id)]
           /\ collector' = [collector EXCEPT !.pc[module] =
                              [pc EXCEPT !.enum_data = walked.enum_data,
                                         !.k = @ + 1,
                                         !.todo = IF pc.k = Len(pc.item.items)
                                                  THEN Tail(@) ELSE @]]
           /\ op' = [name |-> "add", what |-> "enum_item", id |-> id,
                     arg |-> Some(pc.item.items[pc.k]), ret |-> Ok(id)]

\* An append that collides with the append of the other worker: it takes the
\* slot of the last record when that record belongs to another module.
AddEntity_Collides(module) ==
    LET pc == collector.pc[module]
        what == SymbolWhat[pc.item.kind]
        data == IF pc.item.kind = "Enum" THEN pc.enum_data
                ELSE FunctionData_new(pc.item.name, module)
        arena == db[whats(what)]
        collides == Len(arena) > 0 /\ arena[Len(arena)].module # module
        r == IF collides
             THEN [db |-> [db EXCEPT ![whats(what)][Len(arena)] = data],
                   id |-> Len(arena) - 1]
             ELSE add_(db, what, data)
    IN
    /\ pc # Idle
    /\ Head(pc.todo) = "add"
    /\ db' = r.db
    /\ returned' = [returned EXCEPT ![what] = Append(@, r.id)]
    /\ collector' = [collector EXCEPT !.pc[module] =
                        [pc EXCEPT !.id = r.id, !.todo = Tail(@)]]
    /\ op' = [name |-> "add", what |-> what, id |-> r.id,
              arg |-> Some(data), ret |-> Ok(r.id)]
    /\ UNCHANGED diagnostics

\* add_function / add_enum_module_item of the worker's item.
AddEntity(module) ==
    LET pc == collector.pc[module]
        what == SymbolWhat[pc.item.kind]
        data == IF pc.item.kind = "Enum" THEN pc.enum_data
                ELSE FunctionData_new(pc.item.name, module)
        r == add_(db, what, data)
    IN
    /\ pc # Idle
    /\ Head(pc.todo) = "add"
    /\ db' = r.db
    /\ returned' = [returned EXCEPT ![what] = Append(@, r.id)]
    /\ collector' = [collector EXCEPT !.pc[module] =
                        [pc EXCEPT !.id = r.id, !.todo = Tail(@)]]
    /\ op' = [name |-> "add", what |-> what, id |-> r.id,
              arg |-> Some(data), ret |-> Ok(r.id)]
    /\ UNCHANGED diagnostics

\* check_for_duplicate_definition of the worker's item.
CheckDuplicate(module) ==
    LET pc == collector.pc[module]
        st == check_for_duplicate_definition(
                  [db |-> db, diagnostics |-> diagnostics], module, pc.item.name)
    IN
    /\ pc # Idle
    /\ Head(pc.todo) = "check"
    /\ diagnostics' = st.diagnostics
    /\ collector' = [collector EXCEPT !.pc[module] = [pc EXCEPT !.todo = Tail(@)]]
    /\ op' = [name |-> "check_for_duplicate_definition", what |-> "module",
              id |-> module, arg |-> Some(pc.item), ret |-> Ok(None)]
    /\ UNCHANGED <<db, returned>>

\* module.add_module_item of the worker's item; the worker is done with it.
BindItem(module) ==
    LET pc == collector.pc[module] IN
    /\ pc # Idle
    /\ Head(pc.todo) = "insert"
    /\ db' = value(add_module_item(db, module, pc.item.name.id,
                                   Symbol(SymbolKind[pc.item.kind], pc.id)))
    /\ collector' = [collector EXCEPT !.pc[module] = Idle]
    /\ op' = [name |-> "add_module_item", what |-> "module", id |-> module,
              arg |-> Some(pc.item), ret |-> Ok(None)]
    /\ UNCHANGED <<diagnostics, returned>>

NextWorkers ==
    \/ \E module \in LoweredModules : \E id \in Names :
          Begin(module, "Function", id, << >>)
    \/ \E module \in LoweredModules : Begin(module, "Enum", "a", << "a", "a" >>)
    \/ \E module \in LoweredModules : EnumItemStep(module)
    \/ \E module \in LoweredModules : AddEntity(module)
    \/ \E module \in LoweredModules : CheckDuplicate(module)
    \/ \E module \in LoweredModules : BindItem(module)

SpecWorkers == InitWorkers /\ [][NextWorkers]_vars

\* CollectDefinitions::run: the items of one module from place k on, in order.
RECURSIVE run_module(_, _, _, _)
run_module(st, module, items, k) ==
    IF k > Len(items) THEN st
    ELSE run_module(run(st, module, items[k]), module, items, k + 1)

\* CollectDefinitions::run_all: the modules of `order` from place k on.
RECURSIVE run_all(_, _, _, _)
run_all(st, hir, order, k) ==
    IF k > Len(order) THEN st
    ELSE run_all(run_module(st, order[k], hir[order[k]], 1), hir, order, k + 1)

\* What collection leaves for a module: per name the kind bound and the
\* place of the bound declaration, and the diagnostics of the module's file.
Collected(st, module) ==
    [items |-> [n \in Identifiers |->
                   IF is_some(module_item_symbol(st.db, module, n))
                   THEN << unwrap(module_item_symbol(st.db, module, n)).kind,
                           Symbol_name(st.db,
                                       unwrap(module_item_symbol(st.db, module, n)))
                               .location >>
                   ELSE << >>],
     diagnostics |-> SelectSeq(st.diagnostics,
                               LAMBDA d : d.filepath = filepath(module))]

\* The orders in which run_all can be given the two modules.
ModuleOrders == {<< 0, 1 >>, << 1, 0 >>}

\* No worker is in the middle of an item.
Quiescent == \A module \in LoweredModules : collector.pc[module] = Idle

\* C33: whatever the interleaving of the synchronized steps of the workers,
\* every allocation returns the index the arena had, so that no handle of a
\* kind is returned twice; and when the workers are done, each module's item
\* map (name to kind and declaration) and its diagnostics are those run_all
\* leaves for the same lowered modules, in either order of the modules.
C33_AllocationStep ==
    op'.name = "add" =>
        /\ op'.id = Len(db[whats(op'.what)])
        /\ Len(db'[whats(op'.what)]) = op'.id + 1

C33_AsSequential ==
    /\ \A what \in Whats : \A i, j \in 1 .. Len(returned[what]) :
          returned[what][i] = returned[what][j] => i = j
    /\ Quiescent =>
          \A order \in ModuleOrders : \A module \in LoweredModules :
              Collected([db |-> db, diagnostics |-> diagnostics], module)
                  = Collected(run_all([db |-> CollectDatabase,
                                       diagnostics |-> << >>],
                                      collector.hir, order, 1), module)

C33_Interleaved == [][C33_AllocationStep]_vars /\ []C33_AsSequential

\* C33 witness: the first module declared the function a twice while the
\* second module's function a was collected in between: its record was
\* allocated between the two of the first module, the duplicate of the first
\* module was reported, both workers are done and each module is bound to
\* its own last declaration.
C33_Witness ==
    /\ Quiescent
    /\ Len(collector.hir[0]) = 2
    /\ Len(collector.hir[1]) = 1
    /\ Len(db.functions) = 3
    /\ Len(diagnostics) = 1
    /\ diagnostics[1].diagnostic = "ItemDefinedMultipleTimes"
    /\ diagnostics[1].filepath = filepath(0)
    /\ module_item_symbol(db, 0, "a") = Some(Symbol("Function", 2))
    /\ module_item_symbol(db, 1, "a") = Some(Symbol("Function", 1))

\* The module reached after the first k segments of an absolute path, if
\* they lead to one.
Reached(d, path, k) ==
    IF k = 1 THEN d.packages[path[1]]
    ELSE LET found == Denoted(d, SubSeq(path, 1, k))
         IN  IF is_some(found) /\ unwrap(found).kind = "Module"
             THEN Some(unwrap(found).id)
             ELSE None

\* The segment of an absolute path that is not found: the first, if it names
\* no package; a later one, if the segments before it lead to a module that
\* neither declares it nor has it as a submodule.  There is at most one.
Missing(d, path) ==
    {k \in 1 .. Len(path) :
        IF k = 1 THEN ~is_some(d.packages[path[1]])
        ELSE /\ is_some(Reached(d, path, k - 1))
             /\ LET reached == d.modules[unwrap(Reached(d, path, k - 1)) + 1]
                IN  /\ ~is_some(reached.module_item_symbols[path[k]])
                    /\ ~is_some(reached.submodules[path[k]])}

\* The paths that agree with path on its first k segments.
SamePrefix(path, k) ==
    {SubSeq(path, 1, k)} \cup {Append(SubSeq(path, 1, k), later) :
                                  later \in {IdentifierAST(n, DUMMY_LOCATION) :
                                                n \in Identifiers}}

\* C34: a path one of whose segments is found neither as a declared item nor
\* as a submodule of the module reached so far resolves to nothing, not to
\* the module reached so far; resolving it for an import appends the one
\* PathNotFound diagnostic that names that segment and its place and leaves
\* the Database alone, and the outcome is the same whatever follows that
\* segment in the path.
C34_FailStep ==
    /\ op'.name = "add_import_hir" =>
           LET path == unwrap(op'.arg).path
               st == [db |-> db, diagnostics |-> diagnostics]
           IN  \A k \in Missing(db, Segments(path)) :
                   /\ db' = db
                   /\ diagnostics' =
                          Append(diagnostics,
                                 PathNotFound(filepath(op'.id), path[k].id,
                                              path[k].location))
                   /\ \A other \in SamePrefix(path, k) :
                          resolve_path(st, other)
                              = [st |-> [db |-> db', diagnostics |-> diagnostics'],
                                 ret |-> None]
    /\ op'.name = "resolve_module_item_by_absolute_path" =>
           (Missing(db, op'.arg) # {} => op'.ret = None)

C34_FirstFailingSegment == [][C34_FailStep]_vars

\* C34 witness: `import b.a as c` was resolved while no package b was
\* registered, though the root module of package a declares a: the one
\* diagnostic names the first segment, b, at its place.
C34_Witness ==
    /\ op.name = "add_import_hir"
    /\ Segments(unwrap(op.arg).path) = << "b", "a" >>
    /\ db.packages["b"] = None
    /\ db.packages["a"] = Some(0)
    /\ is_some(module_item_symbol(db, 0, "a"))
    /\ Len(diagnostics) = 1
    /\ diagnostics[1].diagnostic = "PathNotFound"
    /\ diagnostics[1].name = "b"
    /\ diagnostics[1].first = unwrap(op.arg).path[1].location
    /\ resolved_imports(db, 0) = EmptyMap

\* What resolving the type alone, with no diagnostic recorded before, gives
\* in the Database d: the diagnostics it adds and what it returns.
Alone(d, ty, scope) ==
    resolve_type([db |-> d, diagnostics |-> << >>], ty, scope, 0)

\* The places of types whose type yields nothing while the types before it
\* resolve: the first failing one, if there is one.
FirstFailing(d, types, scope) ==
    {k \in 1 .. Len(types) :
        /\ Alone(d, types[k], scope).ret = Ok(None)
        /\ \A j \in 1 .. k - 1 : returned_some(Alone(d, types[j], scope))}

\* The values of types that all resolve, in their order.
AllResolved(d, types, scope) ==
    [k \in 1 .. Len(types) |-> unwrap(value(Alone(d, types[k], scope).ret))]

\* C35: resolving a tuple type returns a Tuple exactly when every element
\* resolves, and then the resolved elements in their order; when an element
\* yields nothing and the elements before it resolve, the call returns
\* nothing and adds the diagnostics of that element only: the elements after
\* it are not resolved, whatever resolving them would report or end in.
C35_TupleStep ==
    (op'.name = "resolve_type" /\ op'.arg.type = "Tuple") =>
        LET types == op'.arg.element_types
        IN  /\ db' = db
            /\ returned_some(op')
                  <=> \A k \in 1 .. Len(types) :
                          returned_some(Alone(db, types[k], op'.id))
            /\ returned_some(op') =>
                  /\ op'.ret = Ok(Some(Type_Tuple(AllResolved(db, types, op'.id))))
                  /\ diagnostics' = diagnostics
            /\ \A k \in FirstFailing(db, types, op'.id) :
                  /\ op'.ret = Ok(None)
                  /\ diagnostics' = diagnostics
                                    \o Alone(db, types[k], op'.id).st.diagnostics

C35_Tuple == [][C35_TupleStep]_vars

\* C35 witness: the tuple (b, a) was resolved where b names nothing and a is
\* a struct: the call returned nothing with the one diagnostic of b, while
\* resolving a alone does not return.
C35_Witness ==
    /\ op.name = "resolve_type"
    /\ op.arg.type = "Tuple"
    /\ Segments(op.arg.element_types[1].path) = << "b" >>
    /\ Segments(op.arg.element_types[2].path) = << "a" >>
    /\ module_item_symbol(db, 0, "a") = Some(Symbol("Struct", 0))
    /\ ~is_ok(Alone(db, op.arg.element_types[2], op.id).ret)
    /\ op.ret = Ok(None)
    /\ Len(diagnostics) = 1
    /\ diagnostics[1].diagnostic = "PathNotFound"
    /\ diagnostics[1].name = "b"

\* A tuple of two different elements resolved to the Tuple of both, in order.
C35_Resolved ==
    /\ op.name = "resolve_type"
    /\ op.arg.type = "Tuple"
    /\ op.ret = Ok(Some(Type_Tuple(<< Type_Constructor(TypeConstructor(<< "a" >>, << >>)),
                                      Type_Constructor(TypeConstructor(<< "b" >>, << >>)) >>)))

\* C36: resolving a function type resolves the parameter types in order and
\* then the return type: it returns a Function of the resolved parameters, in
\* order, and the resolved return type exactly when all of them resolve; when
\* one of them yields nothing and those before it resolve, the call returns
\* nothing with the diagnostics of that one only: the parameters after it and
\* the return type are not resolved.
C36_FunctionStep ==
    (op'.name = "resolve_type" /\ op'.arg.type = "Function") =>
        LET types == Append(op'.arg.parameter_types, op'.arg.return_type)
            resolved == AllResolved(db, types, op'.id)
        IN  /\ db' = db
            /\ returned_some(op')
                  <=> \A k \in 1 .. Len(types) :
                          returned_some(Alone(db, types[k], op'.id))
            /\ returned_some(op') =>
                  /\ op'.ret = Ok(Some(Type_Function(
                                   SubSeq(resolved, 1, Len(types) - 1),
                                   resolved[Len(types)])))
                  /\ diagnostics' = diagnostics
            /\ \A k \in FirstFailing(db, types, op'.id) :
                  /\ op'.ret = Ok(None)
                  /\ diagnostics' = diagnostics
                                    \o Alone(db, types[k], op'.id).st.diagnostics

C36_Function == [][C36_FunctionStep]_vars

\* C36 witness: the function type (b, a) -> a was resolved where b names
\* nothing and a is a struct: the call returned nothing with the one
\* diagnostic of b, while resolving a alone does not return.
C36_Witness ==
    /\ op.name = "resolve_type"
    /\ op.arg.type = "Function"
    /\ Len(op.arg.parameter_types) = 2
    /\ Segments(op.arg.parameter_types[1].path) = << "b" >>
    /\ module_item_symbol(db, 0, "a") = Some(Symbol("Struct", 0))
    /\ ~is_ok(Alone(db, op.arg.return_type, op.id).ret)
    /\ op.ret = Ok(None)
    /\ Len(diagnostics) = 1
    /\ diagnostics[1].diagnostic = "PathNotFound"
    /\ diagnostics[1].name = "b"

\* A function type of two different parameters resolved to the Function of
\* both, in order, and the return type.
C36_Resolved ==
    /\ op.name = "resolve_type"
    /\ op.arg.type = "Function"
    /\ op.ret = Ok(Some(Type_Function(
                    << Type_Constructor(TypeConstructor(<< "b" >>, << >>)),
                       Type_Constructor(TypeConstructor(<< "a" >>, << >>)) >>,
                    Type_Constructor(TypeConstructor(<< "a" >>, << >>)))))

\* The return type of a function type yielded nothing after its parameter
\* resolved.
C36_ReturnFailed ==
    /\ op.name = "resolve_type"
    /\ op.arg.type = "Function"
    /\ FirstFailing(db, Append(op.arg.parameter_types, op.arg.return_type), op.id)
           = {Len(op.arg.parameter_types) + 1}
    /\ op.ret = Ok(None)

\* What the path of an interface names in the root module, if anything.
Interface_symbol(d, interface) ==
    resolve_module_item_path(d, 0, interface.path)

\* C37: resolve_interface returns a constructor, of the segments of the path
\* and the resolved type arguments in order, exactly when the path names an
\* interface and every type argument resolves; it returns nothing, and goes
\* on, when the path names something that is not an interface, when the
\* path names nothing and when a type argument yields nothing.
C37_InterfaceStep ==
    op'.name = "resolve_interface" =>
        LET found == Interface_symbol(db, op'.arg)
            arguments == op'.arg.arguments
            names_interface == is_some(found) /\ unwrap(found).kind = "Interface"
        IN  /\ returned_some(op')
                  <=> /\ names_interface
                      /\ \A k \in 1 .. Len(arguments) :
                            returned_some(Alone(db, arguments[k], op'.id))
            /\ returned_some(op') =>
                  op'.ret = Ok(Some(TypeConstructor(
                                Segments(op'.arg.path),
                                AllResolved(db, arguments, op'.id))))
            /\ (is_some(found) /\ ~names_interface) => op'.ret = Ok(None)
            /\ ~is_some(found) => op'.ret = Ok(None)
            /\ (names_interface /\ FirstFailing(db, arguments, op'.id) # {})
                  => op'.ret = Ok(None)

C37_InterfaceOrNothing == [][C37_InterfaceStep]_vars

\* The part of C37 that the code keeps: the same, for a path that names an
\* interface, a module or nothing.
C37_KeptStep ==
    (/\ op'.name = "resolve_interface"
     /\ is_some(Interface_symbol(db, op'.arg))
           => unwrap(Interface_symbol(db, op'.arg)).kind \in {"Interface", "Module"})
        => C37_InterfaceStep

C37_Kept == [][C37_KeptStep]_vars

\* C37, the constructor: a<b> was resolved where a is an interface and b a
\* generic parameter.
C37_Resolved ==
    /\ op.name = "resolve_interface"
    /\ Interface_symbol(db, op.arg) = Some(Symbol("Interface", 0))
    /\ op.ret = Ok(Some(TypeConstructor(
                    << "a" >>,
                    << Type_Constructor(TypeConstructor(<< "b" >>, << >>)) >>)))

\* C37 witness: resolve_interface was given the name of a struct of the root
\* module and ended in the panic of unreachable!().
C37_Panics ==
    /\ op.name = "resolve_interface"
    /\ op.arg.arguments = << >>
    /\ is_some(Interface_symbol(db, op.arg))
    /\ unwrap(Interface_symbol(db, op.arg)).kind = "Struct"
    /\ op.ret = Unreachable
    /\ diagnostics = << >>

\* C38: implements answers false for every type that is not a Constructor (a
\* tuple, a function type, an interface object, the unknown type), whatever
\* the interface asked about.
C38_ImplementsStep ==
    (op'.name = "implements" /\ op'.arg[1].type # "Constructor") =>
        op'.ret = Ok(FALSE)

C38_NeverImplements == [][C38_ImplementsStep]_vars

\* C38 witness: implements was asked whether the interface object of the
\* bound a implements the interface a, and answered false.
C38_Witness ==
    /\ op.name = "implements"
    /\ op.arg[1].type = "InterfaceObject"
    /\ op.arg[1].bounds = << op.arg[2] >>
    /\ op.ret = Ok(FALSE)

\* C39: at every point of collection, every Symbol bound in a module's item
\* map points at an allocated record of its kind whose name is the key and
\* whose module is that module, and every handle in the item map of an enum
\* points at an allocated enum item of that name in the module of the enum.
C39_BoundEntities ==
    /\ \A m \in LoweredModules : \A n \in Identifiers :
          is_some(module_item_symbol(db, m, n)) =>
              LET sym == unwrap(module_item_symbol(db, m, n))
                  arena == db[whats(SymbolWhat[sym.kind])]
              IN  /\ sym.kind \in DOMAIN SymbolKind
                  /\ sym.id + 1 \in 1 .. Len(arena)
                  /\ arena[sym.id + 1].name.id = n
                  /\ arena[sym.id + 1].module = m
    /\ \A e \in 1 .. Len(db.enums) : \A n \in Identifiers :
          is_some(db.enums[e].items[n]) =>
              LET id == unwrap(db.enums[e].items[n])
              IN  /\ id + 1 \in 1 .. Len(db.enum_items)
                  /\ db.enum_items[id + 1].name.id = n
                  /\ db.enum_items[id + 1].module = db.enums[e].module

\* C39 witness: collection is over; the first module holds a tuple-like
\* struct a and the enum b with the items a, b, the second module a struct a.
C39_Witness ==
    /\ collector.cursor = 2
    /\ module_item_symbol(db, 0, "a") = Some(Symbol("TupleLikeStruct", 0))
    /\ module_item_symbol(db, 0, "b") = Some(Symbol("Enum", 0))
    /\ db.enums[1].items["a"] = Some(0)
    /\ db.enums[1].items["b"] = Some(1)
    /\ module_item_symbol(db, 1, "a") = Some(Symbol("Struct", 0))

\* C40: the duplicate check looks at the declared items only.  Declaring an
\* item under the name of a submodule or of a resolved import of the module,
\* a name no item of the module has yet, appends no ItemDefinedMultipleTimes
\* diagnostic; the submodule map and the resolved imports keep their entries;
\* afterwards symbol() of the name is the new item while submodule() of the
\* name is the submodule it was.
C40_ShadowStep ==
    (op'.name = "run" /\ unwrap(op'.arg).kind \in DefinedKinds) =>
        LET m == op'.id
            n == unwrap(op'.arg).name.id
        IN  (/\ ~is_some(module_item_symbol(db, m, n))
             /\ \/ is_some(submodule(db, m, n))
                \/ is_some(resolved_imports(db, m)[n])) =>
                /\ \A k \in 1 .. Len(Appended) :
                      Appended[k].diagnostic # "ItemDefinedMultipleTimes"
                /\ submodules(db', m) = submodules(db, m)
                /\ resolved_imports(db', m) = resolved_imports(db, m)
                /\ submodule(db', m, n) = submodule(db, m, n)
                /\ is_some(symbol(db', m, n))
                /\ symbol(db', m, n) = module_item_symbol(db', m, n)
                /\ unwrap(symbol(db', m, n)).kind
                      = SymbolKind[unwrap(op'.arg).kind]

C40_ItemsOnly == [][C40_ShadowStep]_vars

\* C40 witness: the first module, which has the submodule b, declared the
\* function b: no diagnostic, symbol(b) is the function and submodule(b) the
\* module still.
C40_Witness ==
    /\ op.name = "run"
    /\ op.id = 0
    /\ unwrap(op.arg).kind = "Function"
    /\ unwrap(op.arg).name.id = "b"
    /\ diagnostics = << >>
    /\ symbol(db, 0, "b") = Some(Symbol("Function", 0))
    /\ submodule(db, 0, "b") = Some(1)

\* The second module, which imports a, declared the struct a without a
\* diagnostic.
C40_Import ==
    /\ op.name = "run"
    /\ op.id = 1
    /\ unwrap(op.arg).name.id = "a"
    /\ diagnostics = << >>
    /\ symbol(db, 1, "a") = Some(Symbol("Struct", 0))
    /\ resolved_imports(db, 1)["a"] = Some(Symbol("Module", 0))

====
